---- MODULE Spec2Model ----
(***************************************************************************)
(* A model of the llm-router control plane and placement engine:           *)
(*   - the cluster state store        (internal/state)                     *)
(*   - the control service stream     (internal/control)                   *)
(*   - the placement engine and gate  (internal/proxy)                     *)
(*   - the maintenance planner        (internal/planner)                   *)
(*                                                                         *)
(* Units.  RAM is counted in MiB.  Time is counted in ticks of one offline *)
(* TTL (NODE_OFFLINE_SECONDS, 5 s by default), so NodeOfflineTTL is one    *)
(* tick and a heartbeat of age 2 ticks is stale.                           *)
(***************************************************************************)
EXTENDS Integers, Sequences, FiniteSets, TLC

\* ------------------------------------------------------------------ bounds

\* The clock starts at 1 and is advanced at most MaxTime times.
MaxTime == 2
\* Client requests handled concurrently (the K of load coalescing).
NReq == 2
\* The messages that can be on their way in one direction of a control stream.
MaxQueue == 1
\* The largest in-flight count a worker reports in the scoring specification
\* (the field is a uint32).
BigInflight == 2000000

\* ------------------------------------------------------------ the universe

Nodes == {"n1", "n2"}
Models == {"m1", "m2"}
Streams == {"s1", "s2"}
Requests == 1..NReq

\* Data-plane URLs a HELLO can announce ("" is "not announced").
URLs == {"", "http://w"}

\* The ModelState enum of the wire protocol: LOADING=1, READY=2, UNLOADED=3,
\* ERROR=4; 0 is the unspecified value.
WireLoading == 1
WireReady == 2
WireUnloaded == 3
WireError == 4

\* --------------------------------------------------------- program constants

\* NodeOfflineTTL: 5 * time.Second, one tick of the model's clock.
NodeOfflineTTL == 1

\* MIN_FREE_RAM_MB, the default, in MiB.
MinFreeBytes == 2048
\* inflightPenaltyBytes = 512 MiB
inflightPenaltyBytes == 512
\* latencyPenaltyBytesPerMs = 8 MiB/ms
latencyPenaltyBytesPerMs == 8
\* affinityBonus = 1 GiB
affinityBonus == 1024
\* the OOM guard's score, -1e15 bytes, in MiB
oomScore == -953674316

\* --------------------------------------------------------------- variables

VARIABLES
    now,        \* the wall clock (time.Now())
    cluster,    \* ClusterState.nodes: node id -> NodeSnapshot ("known" FALSE: no entry)
    registry,   \* NodeControlService.streams: node id -> stream ("" : no entry)
    strm,       \* per control stream: the Stream() handler's locals and position
    gates,      \* Router.gates: model id -> modelGate ("exists" FALSE: no entry)
    req,        \* per client request: the handler's locals and position
    policies,   \* the policy store: model id -> ModelPolicy ("ok" FALSE: no row)
    lat,        \* LatencyTracker.nodes: node id -> EWMA in ms (0: no entry or no sample)
    pl,         \* the planner: the unload frames it sent and what it logged
    rpCache,    \* Router.rpCache: target URL -> the node id its proxy's closures hold
    heap,       \* the map objects behind the cluster state and a caller's snapshot
    hdr,        \* the proxy Director: the header it is given and the header it leaves
    agent,      \* the node agent of one worker: its tasks, its llama-server, its stream
    lk          \* the mutexes of the router and who holds or waits for them

vars == <<now, cluster, registry, strm, gates, req, policies, lat, pl, rpCache, heap, hdr, agent, lk>>

\* ---------------------------------------------------------------- records

\* time.Time{} (IsZero): the value unixMsToTime gives a missing loaded_since.
ZeroTime == -1

NoRes == [state |-> "absent", loadedSince |-> ZeroTime]

NoModels == [m \in Models |-> NoRes]

\* A key of the cluster map that has no entry.
NoNode == [known |-> FALSE, url |-> "", hb |-> 0, ramTotal |-> 0, ramAvail |-> 0,
           inflight |-> 0, models |-> NoModels]

\* ModelPolicy{} with ok = false: what GetPolicy returns for a model without a row.
NoPolicy == [ok |-> FALSE, ModelID |-> "", RAMRequiredBytes |-> 0, TTLSecs |-> 0,
             Pinned |-> FALSE, Priority |-> 0]

\* A key of the gate map that has no entry.  obj counts the modelGate objects
\* that were made for the key: it is the identity of the one in the map.
NoGate == [exists |-> FALSE, obj |-> 0, loadingNode |-> "", mu |-> 0]

\* newModelGate(): a gate with no loading node, an open notifyCh and a free
\* mutex, the next object made for the key.  mu is the task that holds the
\* mutex: 0 for none, a request, or a stream's StreamTask.
newModelGate(old) == [exists |-> TRUE, obj |-> old.obj + 1, loadingNode |-> "", mu |-> 0]

StreamTask == [s \in Streams |-> IF s = "s1" THEN -1 ELSE -2]

\* The order of node ids as Go compares strings.
NodeRank == [n \in Nodes |-> IF n = "n1" THEN 1 ELSE 2]

\* All the orders in which a range over a Go map can enumerate the keys S.
RECURSIVE Perms(_)
Perms(S) ==
    IF S = {} THEN {<<>>}
    ELSE UNION {{<<x>> \o t : t \in Perms(S \ {x})} : x \in S}

\* ------------------------------------------------------------ cluster state

\* NodeSnapshot.IsOnline(now, ttl): the heartbeat is at most ttl old.
IsOnline(n, t, ttl) == t - n.hb <= ttl

\* ClusterState.Snapshot(): the ids with an entry (each entry is copied).
Snapshot(cs) == {n \in Nodes : cs[n].known}

\* cloneNode, as far as the placement engine reads the copy.
cloneNode(n) == [url |-> n.url, hb |-> n.hb, ramAvail |-> n.ramAvail,
                 inflight |-> n.inflight, models |-> n.models]

\* ClusterState.SnapshotOnline(now, ttl): Snapshot filtered by IsOnline.
SnapshotOnline(cs, t, ttl) == {n \in Snapshot(cs) : IsOnline(cs[n], t, ttl)}

\* A faulty variant of UpsertNodeHello that starts the record anew.
UpsertNodeHelloReset(cs, n, url, t) ==
    [cs EXCEPT ![n] = [NoNode EXCEPT !.known = TRUE, !.url = url, !.hb = t]]

\* ClusterState.UpsertNodeHello
UpsertNodeHello(cs, n, url, t) ==
    [cs EXCEPT ![n] = [@ EXCEPT !.known = TRUE, !.url = url, !.hb = t]]

\* A faulty variant that merges the STATUS's residencies into the map the
\* record already holds instead of replacing the map.
UpdateNodeStatusMerge(cs, n, ramTotal, ramAvail, inflight, models, t) ==
    [cs EXCEPT ![n] = [@ EXCEPT !.known = TRUE, !.ramTotal = ramTotal,
                                !.ramAvail = ramAvail, !.inflight = inflight,
                                !.hb = t,
                                !.models = [m \in Models |->
                                    IF models[m].state # "absent" THEN models[m]
                                    ELSE cs[n].models[m]]]]

\* ClusterState.UpdateNodeStatus: the record takes the STATUS's values and map.
UpdateNodeStatus(cs, n, ramTotal, ramAvail, inflight, models, t) ==
    [cs EXCEPT ![n] = [@ EXCEPT !.known = TRUE, !.ramTotal = ramTotal,
                                !.ramAvail = ramAvail, !.inflight = inflight,
                                !.hb = t, !.models = models]]

\* mapModelState: the wire enum to state.ModelState (anything else is UNLOADED).
mapModelState(w) ==
    CASE w = WireLoading -> "loading"
      [] w = WireReady -> "ready"
      [] w = WireUnloaded -> "unloaded"
      [] w = WireError -> "error"
      [] OTHER -> "unloaded"

\* unixMsToTime: a non-positive stamp is the zero time.
unixMsToTime(ms) == IF ms <= 0 THEN ZeroTime ELSE ms

\* ------------------------------------------------------------------ scoring

\* scoreNode(n, lat, p): n is a NodeSnapshot, l the tracker's EWMA for n.
scoreNode(n, l, p) ==
    IF p.RAMRequiredBytes > 0 /\ n.ramAvail < p.RAMRequiredBytes
    THEN oomScore
    ELSE LET pen == n.inflight * inflightPenaltyBytes
             latPen == IF l > 0 THEN l * latencyPenaltyBytesPerMs ELSE 0
             bonus == IF p.ModelID \in Models /\ n.models[p.ModelID].state # "absent"
                      THEN affinityBonus ELSE 0
         IN n.ramAvail - pen - latPen + bonus

\* A faulty variant of the loop's iteration without the node id tie-break: on
\* a full tie the candidate seen first stays.
pickBestStepFirst(snap, l, p, best, n) ==
    IF best = "" THEN n
    ELSE LET s == scoreNode(snap[n], l[n], p)
             bestScore == scoreNode(snap[best], l[best], p)
         IN IF s > bestScore THEN n
            ELSE IF s = bestScore /\ snap[n].inflight < snap[best].inflight THEN n
            ELSE best

\* One iteration of pickBestByScore's loop: best is "" (nil) or a node id of snap.
pickBestStep(snap, l, p, best, n) ==
    IF best = "" THEN n
    ELSE LET s == scoreNode(snap[n], l[n], p)
             bestScore == scoreNode(snap[best], l[best], p)
         IN IF s > bestScore THEN n
            ELSE IF s = bestScore
                 THEN IF snap[n].inflight < snap[best].inflight THEN n
                      ELSE IF snap[n].inflight = snap[best].inflight
                              /\ NodeRank[n] < NodeRank[best] THEN n
                      ELSE best
                 ELSE best

RECURSIVE pickBestFrom(_, _, _, _, _)
pickBestFrom(snap, l, p, best, ord) ==
    IF ord = <<>> THEN best
    ELSE pickBestFrom(snap, l, p, pickBestStep(snap, l, p, best, Head(ord)), Tail(ord))

\* pickBestByScore(nodes, lat, p): nodes in the order ord; "" is nil.
pickBestByScore(snap, l, p, ord) == pickBestFrom(snap, l, p, "", ord)

\* ----------------------------------------------------------------- the gate

\* A faulty variant of getGate that makes a new gate on every call.
getGateFresh(gs, m) == [gs EXCEPT ![m] = newModelGate(@)]

\* Router.getGate: the gate of the model, made on first use (under gatesMu).
getGate(gs, m) == IF gs[m].exists THEN gs ELSE [gs EXCEPT ![m] = newModelGate(@)]

\* A faulty variant of isModelReadyOnNode that accepts READY on any node.
isModelReadyAnywhere(cs, m, n) ==
    \E x \in Snapshot(cs) : cs[x].models[m].state = "ready"

\* Router.isModelReadyOnNode: the node's entry holds the model as READY.
isModelReadyOnNode(cs, m, n) ==
    \E x \in Snapshot(cs) : x = n /\ cs[x].models[m].state = "ready"

\* auth.CheckACL(allowedStr, actualValue); allowedStr is given by its
\* comma-separated parts, <<>> for the empty string.
CheckACL(allowed, v) ==
    \/ allowed = <<"*">>
    \/ allowed = <<>>
    \/ \E i \in 1..Len(allowed) : allowed[i] = v

\* ------------------------------------------------------- handler locals

\* A snapshot slice with no element.
NoSnap == [n \in {} |-> NoNode]

\* A request before its handler runs.  how is the branch of pickNodeForModel
\* that returned: "ready" (DIRECT, READY subset), "loader" (DIRECT, made the
\* loading owner) or "wait" (WAIT).
\* data is the list of ids in the answer to a GET /v1/models; body is the
\* request body where a specification draws it, and via the node id held by
\* the reverse proxy the request was served with.
NewReq == [pc |-> "new", model |-> "", node |-> "", url |-> "", how |-> "",
           t0 |-> 0, snap |-> NoSnap, chClosed |-> FALSE, cancelled |-> FALSE,
           data |-> <<>>, body |-> [json |-> FALSE, model |-> ""], via |-> ""]

\* Router.rpCache before the first request: no proxy was built.  The keys are
\* the data-plane URLs the workers announce.
ProxyURLs == {"http://w", "http://w2"}

NoProxies == [u \in ProxyURLs |-> ""]

\* The bodies of the POST requests: not JSON, JSON without (or with an empty)
\* model field, and JSON that names m1.
Bodies == {[json |-> FALSE, model |-> ""], [json |-> TRUE, model |-> ""],
           [json |-> TRUE, model |-> "m1"]}

\* A residency a STATUS does not list.
NotListed == [listed |-> FALSE, state |-> 0, loadedSinceUnixMs |-> 0]

Listed(w, ms) == [listed |-> TRUE, state |-> w, loadedSinceUnixMs |-> ms]

NoMsg == [ramTotal |-> 0, ramAvail |-> 0, inflight |-> 0,
          models |-> [m \in Models |-> NotListed]]

\* A stream on which no HELLO was received yet.  ret is the error with which
\* the last Stream() call on the connection returned ("" for none); ignored is
\* the last message the loop took from Recv and left without effect ("" for
\* none): it stands for the consumed input, which the service does not keep.
NewStream == [pc |-> "recv", node |-> "", msg |-> NoMsg, todo |-> {}, cur |-> "",
              ret |-> "", ignored |-> ""]

NoPlan == [cmds |-> <<>>, events |-> <<>>]

\* The residency map Stream() builds from a STATUS.
statusModels(msg) ==
    [m \in Models |->
        IF msg.models[m].listed
        THEN [state |-> mapModelState(msg.models[m].state),
              loadedSince |-> unixMsToTime(msg.models[m].loadedSinceUnixMs)]
        ELSE NoRes]

\* Store.GetPolicy as the callers that ignore ok and err read it.
GetPolicy(ps, m) == ps[m]

\* ------------------------------------------------------ inputs of the router

\* The requests of this specification ask for one model.
ReqModels == {"m1"}

\* The API key records of the requests: none (nil), or an ACL.
NoAuth == [some |-> FALSE, AllowedModels |-> <<>>, AllowedNodes |-> <<>>]

AuthRecords == {NoAuth,
                [some |-> TRUE, AllowedModels |-> <<"*">>, AllowedNodes |-> <<"n2">>],
                [some |-> TRUE, AllowedModels |-> <<"m2">>, AllowedNodes |-> <<>>]}

\* The node id each stream's agent announces (NODE_ID).
HelloNode == [s \in Streams |-> IF s = "s1" THEN "n1" ELSE "n2"]

\* The STATUS messages of this specification: an idle worker, and a worker
\* that holds m1 READY (and has less RAM free for it).
StatusIdle == [ramTotal |-> 8192, ramAvail |-> 4096, inflight |-> 0,
               models |-> [m \in Models |-> NotListed]]

StatusReady == [ramTotal |-> 8192, ramAvail |-> 2048, inflight |-> 0,
                models |-> [m \in Models |->
                    IF m = "m1" THEN Listed(WireReady, 0) ELSE NotListed]]

RouterStatusMsgs == {StatusIdle, StatusReady}

\* The round-trip times the proxy observes, in ms.
RTTs == {100}

\* ------------------------------------------------------------------ the clock

Tick ==
    /\ now <= MaxTime
    /\ now' = now + 1
    /\ UNCHANGED <<cluster, registry, strm, gates, req, policies, lat, pl, rpCache, heap, hdr, agent, lk>>

\* ------------------------------------------------------- the control service

\* NodeControlService.attach
attach(reg, n, s) == IF n = "" THEN reg ELSE [reg EXCEPT ![n] = s]

\* A faulty variant of detach that removes the entry whoever holds it.
detachAny(reg, n, s) == IF n = "" THEN reg ELSE [reg EXCEPT ![n] = ""]

\* NodeControlService.detach: only the entry of the closing stream goes.
detach(reg, n, s) ==
    IF n = "" THEN reg
    ELSE IF reg[n] # "" /\ reg[n] = s THEN [reg EXCEPT ![n] = ""] ELSE reg

\* Stream(), case Hello.
StreamHello(s, n, url) ==
    /\ strm[s].pc = "recv"
    /\ cluster' = UpsertNodeHello(cluster, n, url, now)
    /\ registry' = attach(registry, n, s)
    /\ strm' = [strm EXCEPT ![s].node = n, ![s].ret = ""]
    /\ UNCHANGED <<now, gates, req, policies, lat, pl, rpCache, heap, hdr, agent, lk>>

\* A faulty variant that notifies for every residency the STATUS lists.
readyOfListed(msg) == {m \in Models : statusModels(msg)[m].state # "absent"}

\* The READY residencies of a STATUS: the loop of Stream() calls the notifier
\* for every residency, and NotifyModelState returns at once for the others.
readyOf(msg) == {m \in Models : statusModels(msg)[m].state = "ready"}

\* A faulty variant of case Status that takes a STATUS before the HELLO as the
\* STATUS of a worker (best effort) instead of ending the stream.
StreamStatusBestEffort(s, msg) ==
    /\ strm[s].pc = "recv"
    /\ cluster' = UpdateNodeStatus(cluster, IF strm[s].node = "" THEN "n1" ELSE strm[s].node,
                                   msg.ramTotal, msg.ramAvail, msg.inflight,
                                   statusModels(msg), now)
    /\ UNCHANGED <<now, registry, strm, gates, req, policies, lat, pl, rpCache, heap, hdr, agent, lk>>

\* Stream(), case Status.  A STATUS before the HELLO ends the stream
\* (FailedPrecondition).  Otherwise the loop over the residencies runs first:
\* with no READY residency it touches nothing shared and the cluster takes the
\* STATUS in the same step; with READY residencies the notifications follow
\* one by one (NotifyLock, NotifyModelReady) and then StreamUpdate.
StreamStatus(s, msg) ==
    /\ strm[s].pc = "recv"
    /\ IF strm[s].node = ""
       THEN /\ strm' = [strm EXCEPT ![s] = [NewStream EXCEPT !.ret = "FailedPrecondition"]]
            /\ cluster' = cluster
       ELSE IF readyOf(msg) = {}
       THEN /\ cluster' = UpdateNodeStatus(cluster, strm[s].node, msg.ramTotal,
                                           msg.ramAvail, msg.inflight,
                                           statusModels(msg), now)
            /\ strm' = strm
       ELSE /\ strm' = [strm EXCEPT ![s].pc = "notify", ![s].msg = msg,
                                    ![s].todo = readyOf(msg)]
            /\ cluster' = cluster
    /\ UNCHANGED <<now, registry, gates, req, policies, lat, pl, rpCache, heap, hdr, agent, lk>>

\* NotifyModelReady up to g.mu.Lock(): getGate, then the gate's mutex.
NotifyLock(s, m) ==
    /\ strm[s].pc = "notify"
    /\ m \in strm[s].todo
    /\ getGate(gates, m)[m].mu = 0
    /\ gates' = [getGate(gates, m) EXCEPT ![m].mu = StreamTask[s]]
    /\ strm' = [strm EXCEPT ![s].pc = "notifying", ![s].cur = m]
    /\ UNCHANGED <<now, cluster, registry, req, policies, lat, pl, rpCache, heap, hdr, agent, lk>>

\* The requests whose select holds the notifyCh of model m's gate.
selecting(m) == {r \in Requests : req[r].pc = "select" /\ req[r].model = m}

\* A faulty variant that replaces notifyCh without closing the old one.
NotifyReplaceOnly(s) ==
    /\ strm[s].pc = "notifying"
    /\ gates' = [gates EXCEPT ![strm[s].cur].loadingNode = "", ![strm[s].cur].mu = 0]
    /\ strm' = [strm EXCEPT ![s].pc = "notify", ![s].cur = "",
                            ![s].todo = @ \ {strm[s].cur}]
    /\ UNCHANGED <<now, cluster, registry, req, policies, lat, pl, rpCache, heap, hdr, agent, lk>>

\* NotifyModelReady under the mutex: clear the loading node, close notifyCh
\* (every select that holds it sees it closed), make a new one, unlock.
NotifyModelReady(s) ==
    /\ strm[s].pc = "notifying"
    /\ gates' = [gates EXCEPT ![strm[s].cur].loadingNode = "", ![strm[s].cur].mu = 0]
    /\ req' = [r \in Requests |->
                 IF r \in selecting(strm[s].cur)
                 THEN [req[r] EXCEPT !.chClosed = TRUE] ELSE req[r]]
    /\ strm' = [strm EXCEPT ![s].pc = "notify", ![s].cur = "",
                            ![s].todo = @ \ {strm[s].cur}]
    /\ UNCHANGED <<now, cluster, registry, policies, lat, pl, rpCache, heap, hdr, agent, lk>>

\* Stream(), case Status, after the loop: the cluster takes the STATUS.
StreamUpdate(s) ==
    /\ strm[s].pc = "notify"
    /\ strm[s].todo = {}
    /\ cluster' = UpdateNodeStatus(cluster, strm[s].node, strm[s].msg.ramTotal,
                                   strm[s].msg.ramAvail, strm[s].msg.inflight,
                                   statusModels(strm[s].msg), now)
    /\ strm' = [strm EXCEPT ![s].pc = "recv", ![s].msg = NoMsg]
    /\ UNCHANGED <<now, registry, gates, req, policies, lat, pl, rpCache, heap, hdr, agent, lk>>

\* A faulty variant of case Ack that ends the stream on a failed command.
StreamAckStrict(s, ok) ==
    /\ strm[s].pc = "recv"
    /\ IF ok
       THEN /\ strm' = [strm EXCEPT ![s].ignored = "ack ok"]
            /\ registry' = registry
       ELSE /\ strm' = [strm EXCEPT ![s] = [NewStream EXCEPT !.ret = "Aborted",
                                                             !.ignored = "ack failed"]]
            /\ registry' = detach(registry, strm[s].node, s)
    /\ UNCHANGED <<now, cluster, gates, req, policies, lat, pl, rpCache, heap, hdr, agent, lk>>

\* Stream(), case Ack: the ACK is logged, whatever its ok and whether or not
\* a HELLO came before, and the loop goes on.
StreamAck(s, ok) ==
    /\ strm[s].pc = "recv"
    /\ strm' = [strm EXCEPT ![s].ignored = IF ok THEN "ack ok" ELSE "ack failed"]
    /\ registry' = registry
    /\ UNCHANGED <<now, cluster, gates, req, policies, lat, pl, rpCache, heap, hdr, agent, lk>>

\* Stream(), default case: a message of any other kind is dropped.
StreamOther(s) ==
    /\ strm[s].pc = "recv"
    /\ strm' = [strm EXCEPT ![s].ignored = "other"]
    /\ UNCHANGED <<now, cluster, registry, gates, req, policies, lat, pl, rpCache, heap, hdr, agent, lk>>

\* Stream(), Recv fails (EOF or a transport error): detach and return.
StreamClose(s) ==
    /\ strm[s].pc = "recv"
    /\ registry' = detach(registry, strm[s].node, s)
    /\ strm' = [strm EXCEPT ![s] = NewStream]
    /\ UNCHANGED <<now, cluster, gates, req, policies, lat, pl, rpCache, heap, hdr, agent, lk>>

\* ------------------------------------------------------ the placement engine

\* pickNodeForModel, step 1: the nodes of snap that hold m READY.
readyNodes(snap, m) ==
    {n \in DOMAIN snap : snap[n].url # "" /\ snap[n].models[m].state = "ready"}

\* pickNodeForModel, step 2: the gate's loading node is in snap.
loaderInSnap(snap, ln) == \E n \in DOMAIN snap : n = ln /\ snap[n].url # ""

\* A faulty variant of step 3 that keeps the nodes without a data-plane URL.
eligibleAny(snap) == DOMAIN snap

\* pickNodeForModel, step 3: the nodes of snap with a data-plane URL.
eligibleNodes(snap) == {n \in DOMAIN snap : snap[n].url # ""}

\* pickNodeForModel up to the gate: the ACL check, the online snapshot, the ACL
\* filter and the READY subset.
PickSnapshotOf(base, r, m, auth) ==
    /\ req[r].pc = "new"
    /\ IF auth.some /\ ~CheckACL(auth.AllowedModels, m)
       THEN req' = [base EXCEPT ![r].pc = "e503", ![r].model = m, ![r].t0 = now]
       ELSE LET ids == {n \in SnapshotOnline(cluster, now, NodeOfflineTTL) :
                           ~auth.some \/ CheckACL(auth.AllowedNodes, n)}
                snap == [n \in ids |-> cloneNode(cluster[n])]
            IN IF readyNodes(snap, m) # {}
               THEN \E ord \in Perms(readyNodes(snap, m)) :
                       LET best == pickBestByScore(snap, lat, GetPolicy(policies, m), ord)
                       IN req' = [base EXCEPT ![r].pc = "forward", ![r].model = m,
                                             ![r].t0 = now,
                                             ![r].node = best, ![r].url = snap[best].url,
                                             ![r].how = "ready"]
               ELSE req' = [base EXCEPT ![r].pc = "gate", ![r].model = m,
                                       ![r].t0 = now, ![r].snap = snap]
    /\ UNCHANGED <<now, cluster, registry, strm, gates, policies, lat, pl, rpCache, heap, hdr, agent, lk>>

\* pickNodeForModel as the handler calls it.
PickSnapshot(r, m, auth) == PickSnapshotOf(req, r, m, auth)

\* A faulty variant of extractModelAndBody that takes m1 for a missing model.
extractModelOrDefault(b) ==
    IF ~b.json THEN [err |-> "invalid json", model |-> ""]
    ELSE IF b.model = "" THEN [err |-> "", model |-> "m1"]
    ELSE [err |-> "", model |-> b.model]

\* extractModelAndBody: the body must be JSON and name a model.
extractModelAndBody(b) ==
    IF ~b.json THEN [err |-> "invalid json", model |-> ""]
    ELSE IF b.model = "" THEN [err |-> "missing model field", model |-> ""]
    ELSE [err |-> "", model |-> b.model]

\* HandleChatCompletions (HandleCompletions and HandleEmbeddings are the same
\* code) up to the return of the first part of pickNodeForModel: 400 on a bad
\* body, before any placement.
HandleStart(r, b, auth) ==
    LET e == extractModelAndBody(b)
    IN IF e.err # ""
       THEN /\ req[r].pc = "new"
            /\ req' = [req EXCEPT ![r].pc = "e400", ![r].body = b, ![r].t0 = now]
            /\ UNCHANGED <<now, cluster, registry, strm, gates, policies, lat, pl, rpCache, heap, hdr, agent, lk>>
       ELSE PickSnapshotOf([req EXCEPT ![r].body = b], r, e.model, auth)

\* pickNodeForModel: getGate and g.mu.Lock().
PickLock(r) ==
    /\ req[r].pc = "gate"
    /\ getGate(gates, req[r].model)[req[r].model].mu = 0
    /\ gates' = [getGate(gates, req[r].model) EXCEPT ![req[r].model].mu = r]
    /\ req' = [req EXCEPT ![r].pc = "locked"]
    /\ UNCHANGED <<now, cluster, registry, strm, policies, lat, pl, rpCache, heap, hdr, agent, lk>>

\* pickNodeForModel under the gate's mutex, steps 2 and 3, and the unlock.
PickGate(r) ==
    LET m == req[r].model
        snap == req[r].snap
        ln == gates[m].loadingNode
    IN /\ req[r].pc = "locked"
       /\ IF ln # "" /\ loaderInSnap(snap, ln)
          THEN /\ req' = [req EXCEPT ![r].pc = "wait", ![r].node = ln,
                                     ![r].url = snap[ln].url, ![r].how = "wait",
                                     ![r].snap = NoSnap]
               /\ gates' = [gates EXCEPT ![m].mu = 0]
          ELSE \E ord \in Perms(eligibleNodes(snap)) :
                  LET best == pickBestByScore(snap, lat, GetPolicy(policies, m), ord)
                  IN IF best = ""
                     THEN /\ req' = [req EXCEPT ![r].pc = "e503", ![r].snap = NoSnap]
                          /\ gates' = [gates EXCEPT ![m].loadingNode = "", ![m].mu = 0]
                     ELSE /\ req' = [req EXCEPT ![r].pc = "forward", ![r].node = best,
                                                ![r].url = snap[best].url,
                                                ![r].how = "loader", ![r].snap = NoSnap]
                          /\ gates' = [gates EXCEPT ![m].loadingNode = best, ![m].mu = 0]
       /\ UNCHANGED <<now, cluster, registry, strm, policies, lat, pl, rpCache, heap, hdr, agent, lk>>

\* A faulty variant of the check that returns nil without looking.
waitCheckBlind(r, else) ==
    req' = [req EXCEPT ![r].pc = "forward", ![r].chClosed = FALSE]

\* waitModelReady: one readiness check; the wait returns nil when it holds.
waitCheck(r, else) ==
    IF isModelReadyOnNode(cluster, req[r].model, req[r].node)
    THEN req' = [req EXCEPT ![r].pc = "forward", ![r].chClosed = FALSE]
    ELSE req' = [req EXCEPT ![r].pc = else, ![r].chClosed = FALSE]

\* waitModelReady: the timer, getGate and the fast path.
WaitFast(r) ==
    /\ req[r].pc = "wait"
    /\ gates' = getGate(gates, req[r].model)
    /\ waitCheck(r, "loop")
    /\ UNCHANGED <<now, cluster, registry, strm, policies, lat, pl, rpCache, heap, hdr, agent, lk>>

\* waitModelReady, top of the loop: ch := g.notifyCh under the gate's mutex.
WaitRead(r) ==
    /\ req[r].pc = "loop"
    /\ gates[req[r].model].mu = 0
    /\ req' = [req EXCEPT ![r].pc = "select", ![r].chClosed = FALSE]
    /\ UNCHANGED <<now, cluster, registry, strm, gates, policies, lat, pl, rpCache, heap, hdr, agent, lk>>

\* A faulty variant of the select with no deadline case: it polls instead.
WaitNoDeadline(r) ==
    /\ req[r].pc = "select"
    /\ req' = [req EXCEPT ![r].pc = "loop", ![r].chClosed = FALSE]
    /\ UNCHANGED <<now, cluster, registry, strm, gates, policies, lat, pl, rpCache, heap, hdr, agent, lk>>

\* The select's case <-deadline.C: the error, which the handler answers with 503.
WaitTimeout(r) ==
    /\ req[r].pc = "select"
    /\ req' = [req EXCEPT ![r].pc = "e503", ![r].chClosed = FALSE]
    /\ UNCHANGED <<now, cluster, registry, strm, gates, policies, lat, pl, rpCache, heap, hdr, agent, lk>>

\* The select's case <-ch: the channel was closed by a READY notification.
WaitWake(r) ==
    /\ req[r].pc = "select"
    /\ req[r].chClosed
    /\ waitCheck(r, "loop")
    /\ UNCHANGED <<now, cluster, registry, strm, gates, policies, lat, pl, rpCache, heap, hdr, agent, lk>>

\* The select's case <-time.After(200ms).
WaitPoll(r) ==
    /\ req[r].pc = "select"
    /\ waitCheck(r, "loop")
    /\ UNCHANGED <<now, cluster, registry, strm, gates, policies, lat, pl, rpCache, heap, hdr, agent, lk>>

\* The client goes away while its request waits: req.Context() is cancelled.
Cancel(r) ==
    /\ req[r].pc \in {"wait", "loop", "select"}
    /\ ~req[r].cancelled
    /\ req' = [req EXCEPT ![r].cancelled = TRUE]
    /\ UNCHANGED <<now, cluster, registry, strm, gates, policies, lat, pl, rpCache, heap, hdr, agent, lk>>

\* LatencyTracker.observe: the first sample seeds the EWMA (alpha = 0.2).
observe(l, n, ms) ==
    [l EXCEPT ![n] = IF @ = 0 THEN ms ELSE (2 * ms + 8 * @) \div 10]

\* Router.reverseProxy(nodeID, target): the proxy cached for the target URL, or
\* a new one whose ModifyResponse and ErrorHandler hold nodeID.
reverseProxy(cache, n, u) ==
    IF cache[u] # "" THEN cache ELSE [cache EXCEPT ![u] = n]

\* The handler after placement and wait: url.Parse, reverseProxy and the start
\* of ServeHTTP.
ProxyStart(r) ==
    /\ req[r].pc = "forward"
    /\ rpCache' = reverseProxy(rpCache, req[r].node, req[r].url)
    /\ req' = [req EXCEPT ![r].pc = "proxy", ![r].via = rpCache'[req[r].url]]
    /\ UNCHANGED <<now, cluster, registry, strm, gates, policies, lat, pl, heap, hdr, agent, lk>>

\* Router.reverseProxy up to the first r.rpMu.Unlock(): the cached proxy is
\* returned, or the caller goes on to build one with the mutex released.  A
\* proxy is known by the node id its ModifyResponse and ErrorHandler hold.
ProxyLookup(r) ==
    /\ req[r].pc = "forward"
    /\ req' = [req EXCEPT ![r].pc = IF rpCache[req[r].url] # "" THEN "proxy" ELSE "build",
                          ![r].via = rpCache[req[r].url]]
    /\ UNCHANGED <<now, cluster, registry, strm, gates, policies, lat, pl, rpCache, heap, hdr, agent, lk>>

\* Router.reverseProxy from NewSingleHostReverseProxy on: the new proxy is
\* stored under the key, whatever the cache holds by now, and returned.
ProxyStore(r) ==
    /\ req[r].pc = "build"
    /\ rpCache' = [rpCache EXCEPT ![req[r].url] = req[r].node]
    /\ req' = [req EXCEPT ![r].pc = "proxy", ![r].via = req[r].node]
    /\ UNCHANGED <<now, cluster, registry, strm, gates, policies, lat, pl, heap, hdr, agent, lk>>

\* ServeHTTP ends: the upstream answered (ModifyResponse, ObserveOK) or the
\* transport failed (ErrorHandler, ObserveError and 502).
ProxyDone(r, ok, rtt) ==
    /\ req[r].pc = "proxy"
    /\ lat' = observe(lat, req[r].via, rtt)
    /\ req' = [req EXCEPT ![r].pc = IF ok THEN "done" ELSE "e502"]
    /\ UNCHANGED <<now, cluster, registry, strm, gates, policies, pl, rpCache, heap, hdr, agent, lk>>

\* --------------------------------------------------------- GET /v1/models

\* strings.ToLower on the model ids (the ids of this universe are lower-case).
ToLower(m) == IF m = "m1" THEN "m1" ELSE IF m = "m2" THEN "m2" ELSE m

\* The order of the lowered ids.
LowerRank(m) == IF ToLower(m) = "m1" THEN 1 ELSE 2

\* The orders sort.Slice can leave the ids S in under the less function
\* ToLower(a) < ToLower(b).
sortedIDs(S) ==
    {q \in Perms(S) : \A i, j \in 1..Len(q) : i < j => ~(LowerRank(q[j]) < LowerRank(q[i]))}

\* HandleModels: the keys of the residency maps of all nodes of Snapshot().
modelKeys(cs) ==
    {m \in Models : \E n \in Snapshot(cs) : cs[n].models[m].state # "absent"}

\* ModelsHandler.HandleModels for a GET.
HandleModels(r) ==
    /\ req[r].pc = "new"
    /\ \E q \in sortedIDs(modelKeys(cluster)) :
          req' = [req EXCEPT ![r].pc = "listed", ![r].t0 = now, ![r].data = q]
    /\ UNCHANGED <<now, cluster, registry, strm, gates, policies, lat, pl, rpCache, heap, hdr, agent, lk>>

\* ----------------------------------------------------------------- the planner

\* A faulty variant of SendUnload that does not look the session up.
SendUnloadBlind(reg, n, requestID, m) ==
    <<[stream |-> reg[n], node |-> n, requestID |-> requestID, model |-> m]>>

\* NodeControlService.SendUnload, the error it returns: "" stands for nil.
SendUnloadErr(reg, n) == IF reg[n] = "" THEN "Unavailable" ELSE ""

\* NodeControlService.SendUnload: an error when the registry has no stream for
\* the node, else the UNLOAD-MODEL frame goes out on the registered stream.
SendUnload(reg, n, requestID, m) ==
    IF reg[n] = "" THEN <<>>
    ELSE <<[stream |-> reg[n], node |-> n, requestID |-> requestID, model |-> m]>>

\* Planner.tryUnload: the request id names the reason and the time; a frame
\* that went out is followed by two activity events.
tryUnload(p, reg, t, n, m, reason) ==
    LET sent == SendUnload(reg, n, <<reason, t>>, m)
    IN IF sent = <<>> THEN p
       ELSE [p EXCEPT !.cmds = @ \o sent,
                      !.events = @ \o <<[Type |-> "ttl_unload", NodeID |-> n,
                                         Model |-> m, Note |-> reason],
                                        [Type |-> IF reason = "ttl" THEN "ttl_unload"
                                                  ELSE "pressure_unload",
                                         NodeID |-> n, Model |-> m, Note |-> reason]>>]

\* A faulty variant of the TTL pass's conditions that takes a zero loaded_since
\* as a time.
ttlDueZeroToo(e, m, ps, t) ==
    /\ e.models[m].state = "ready"
    /\ GetPolicy(ps, m).ok
    /\ GetPolicy(ps, m).TTLSecs > 0
    /\ ~GetPolicy(ps, m).Pinned
    /\ t - e.models[m].loadedSince >= GetPolicy(ps, m).TTLSecs

\* Planner.tick, TTL pass: the residency m of node entry e is due at time t.
ttlDue(e, m, ps, t) ==
    /\ e.models[m].state = "ready"
    /\ GetPolicy(ps, m).ok
    /\ GetPolicy(ps, m).TTLSecs > 0
    /\ ~GetPolicy(ps, m).Pinned
    /\ e.models[m].loadedSince # ZeroTime
    /\ t - e.models[m].loadedSince >= GetPolicy(ps, m).TTLSecs

\* Planner.tick, TTL pass over the residencies of one node, in the order ord.
RECURSIVE ttlModels(_, _, _, _, _, _, _)
ttlModels(p, reg, t, n, e, ps, ord) ==
    IF ord = <<>> THEN p
    ELSE ttlModels(IF ttlDue(e, Head(ord), ps, t)
                   THEN tryUnload(p, reg, t, n, Head(ord), "ttl") ELSE p,
                   reg, t, n, e, ps, Tail(ord))

\* A faulty variant of the TTL pass that does not skip the busy workers.
RECURSIVE ttlPassBusyToo(_, _, _, _, _, _, _)
ttlPassBusyToo(p, reg, t, cs, ps, ordN, mo) ==
    IF ordN = <<>> THEN p
    ELSE LET n == Head(ordN)
         IN ttlPassBusyToo(ttlModels(p, reg, t, n, cs[n], ps, mo[n]),
                           reg, t, cs, ps, Tail(ordN), mo)

\* Planner.tick, TTL pass over the nodes of the snapshot, in the order ordN;
\* mo[n] is the order in which the residencies of n come.
RECURSIVE ttlPass(_, _, _, _, _, _, _)
ttlPass(p, reg, t, cs, ps, ordN, mo) ==
    IF ordN = <<>> THEN p
    ELSE LET n == Head(ordN)
         IN ttlPass(IF cs[n].inflight > 0 THEN p
                    ELSE ttlModels(p, reg, t, n, cs[n], ps, mo[n]),
                    reg, t, cs, ps, Tail(ordN), mo)

\* A faulty variant of the candidates that keeps the pinned models.
pressureCandsAll(e, ps) ==
    {[modelID |-> m,
      score |-> IF GetPolicy(ps, m).ok THEN GetPolicy(ps, m).Priority ELSE 0,
      loadedSince |-> e.models[m].loadedSince,
      ramBytes |-> IF GetPolicy(ps, m).ok THEN GetPolicy(ps, m).RAMRequiredBytes ELSE 0] :
        m \in {x \in Models : e.models[x].state = "ready"}}

\* Planner.handlePressure: the candidates of node entry e, READY and not pinned.
pressureCands(e, ps) ==
    {[modelID |-> m,
      score |-> IF GetPolicy(ps, m).ok THEN GetPolicy(ps, m).Priority ELSE 0,
      loadedSince |-> e.models[m].loadedSince,
      ramBytes |-> IF GetPolicy(ps, m).ok THEN GetPolicy(ps, m).RAMRequiredBytes ELSE 0] :
        m \in {x \in Models : e.models[x].state = "ready"
                              /\ ~(GetPolicy(ps, x).ok /\ GetPolicy(ps, x).Pinned)}}

\* The model ids in Go's string order.
ModelRank == [m \in Models |-> IF m = "m1" THEN 1 ELSE 2]

\* Planner.handlePressure: the less function of the sort.
candLess(a, b) ==
    IF a.score # b.score THEN a.score < b.score
    ELSE IF a.loadedSince = ZeroTime /\ b.loadedSince = ZeroTime
         THEN ModelRank[a.modelID] < ModelRank[b.modelID]
    ELSE IF a.loadedSince = ZeroTime THEN FALSE
    ELSE IF b.loadedSince = ZeroTime THEN TRUE
    ELSE a.loadedSince < b.loadedSince

\* The place of x in the sequence sq.
indexOf(sq, x) == CHOOSE i \in 1..Len(sq) : sq[i] = x

\* sort.Slice is not stable: candidates that less does not order come out in
\* any order, here the order tb of their model ids.
sortCands(cands, tb) ==
    CHOOSE sq \in Perms(cands) :
        \A i, j \in 1..Len(sq) :
            i < j => /\ ~candLess(sq[j], sq[i])
                     /\ ~candLess(sq[i], sq[j])
                           => indexOf(tb, sq[i].modelID) < indexOf(tb, sq[j].modelID)

\* A faulty variant of the loop that never stops before the last candidate.
RECURSIVE pressureLoopAll(_, _, _, _, _, _, _)
pressureLoopAll(p, reg, t, n, cands, need, freed) ==
    IF cands = <<>> THEN p
    ELSE pressureLoopAll(tryUnload(p, reg, t, n, Head(cands).modelID, "pressure"),
                         reg, t, n, Tail(cands), need, freed + Head(cands).ramBytes)

\* Planner.handlePressure: the loop over the sorted candidates.
RECURSIVE pressureLoop(_, _, _, _, _, _, _)
pressureLoop(p, reg, t, n, cands, need, freed) ==
    IF cands = <<>> THEN p
    ELSE LET c == Head(cands)
             q == tryUnload(p, reg, t, n, c.modelID, "pressure")
         IN IF freed + c.ramBytes >= need THEN q
            ELSE pressureLoop(q, reg, t, n, Tail(cands), need, freed + c.ramBytes)

\* Planner.handlePressure
handlePressure(p, reg, t, n, e, ps, need, tb) ==
    pressureLoop(p, reg, t, n, sortCands(pressureCands(e, ps), tb), need, 0)

\* Planner.tick, RAM pressure pass over the nodes of the snapshot.
RECURSIVE pressurePass(_, _, _, _, _, _, _)
pressurePass(p, reg, t, cs, ps, ordN, tb) ==
    IF ordN = <<>> THEN p
    ELSE LET n == Head(ordN)
         IN pressurePass(IF \/ MinFreeBytes = 0
                            \/ cs[n].ramAvail >= MinFreeBytes
                            \/ cs[n].inflight > 0
                         THEN p
                         ELSE handlePressure(p, reg, t, n, cs[n], ps,
                                             MinFreeBytes - cs[n].ramAvail, tb[n]),
                         reg, t, cs, ps, Tail(ordN), tb)

\* Planner.tick: the snapshot, the TTL pass, the pressure pass.  pl holds what
\* the tick sent until the tick returns.
PlannerTick ==
    /\ pl = NoPlan
    /\ \E ordN \in Perms(Snapshot(cluster)) :
       \E mo \in [Nodes -> Perms(Models)] :
       \E tb \in [Nodes -> Perms(Models)] :
          pl' = pressurePass(ttlPass(NoPlan, registry, now, cluster, policies, ordN, mo),
                             registry, now, cluster, policies, ordN, tb)
    /\ UNCHANGED <<now, cluster, registry, strm, gates, req, policies, lat, rpCache, heap, hdr, agent, lk>>

\* Planner.tick returns.
PlannerReturn ==
    /\ pl # NoPlan
    /\ pl' = NoPlan
    /\ UNCHANGED <<now, cluster, registry, strm, gates, req, policies, lat, rpCache, heap, hdr, agent, lk>>

\* Store.UpsertPolicy
UpsertPolicy(p) ==
    /\ policies' = [policies EXCEPT ![p.ModelID] = p]
    /\ UNCHANGED <<now, cluster, registry, strm, gates, req, lat, pl, rpCache, heap, hdr, agent, lk>>

\* ------------------------------------------- the cluster state's map objects

\* Go maps are references.  heap.objs holds the residency map objects by
\* address, heap.own[n] the address in the store's entry of n (n.Models),
\* heap.snap[n] the address in a caller's copy of n (0: the caller holds no
\* copy), heap.cp[n] the other fields of that copy, and heap.op the operation
\* that ran last.  cluster stays what a reader of the store sees.
Addrs == 1..(2 * Cardinality(Nodes) + 1)

NoHeap == [objs |-> [a \in Addrs |-> NoModels], own |-> [n \in Nodes |-> 0],
           snap |-> [n \in Nodes |-> 0], cp |-> [n \in Nodes |-> NoNode], op |-> ""]

\* The addresses some live reference holds.
live(h) == {h.own[n] : n \in Nodes} \cup {h.snap[n] : n \in Nodes}

\* make(map[string]ModelResidency): an address nothing refers to.
newMap(h) == CHOOSE a \in Addrs \ live(h) : \A b \in Addrs \ live(h) : a <= b

\* Addresses cannot be observed, so the objects are kept at the address of the
\* first reference to them (the store's entries first, then the copies), and
\* an object nothing refers to is gone (the collector).
slotsOf(h, a) ==
    {NodeRank[n] : n \in {x \in Nodes : h.own[x] = a}}
      \cup {Cardinality(Nodes) + NodeRank[n] : n \in {x \in Nodes : h.snap[x] = a}}

slotOf(h, a) ==
    IF a = 0 THEN 0 ELSE CHOOSE k \in slotsOf(h, a) : \A j \in slotsOf(h, a) : k <= j

collect(h) ==
    [h EXCEPT !.objs = [b \in Addrs |->
                          IF \E a \in live(h) \ {0} : slotOf(h, a) = b
                          THEN h.objs[CHOOSE a \in live(h) \ {0} : slotOf(h, a) = b]
                          ELSE NoModels],
              !.own = [n \in Nodes |-> slotOf(h, h.own[n])],
              !.snap = [n \in Nodes |-> slotOf(h, h.snap[n])]]

\* What a reader finds in the store: every entry with the map its Models
\* field refers to.
view(cs, h) ==
    [n \in Nodes |-> IF cs[n].known THEN [cs[n] EXCEPT !.models = h.objs[h.own[n]]]
                     ELSE cs[n]]

\* What the caller finds in its copies.
snapView(h) ==
    [n \in {x \in Nodes : h.snap[x] # 0} |-> [h.cp[n] EXCEPT !.models = h.objs[h.snap[n]]]]

\* A faulty variant of cloneNode's map copy: the copy shares the store's map.
cloneModelsShared(own, new) == own

\* cloneNode: cp.Models is a new map (filled with the entries of n.Models).
cloneModels(own, new) == new

\* cloneNode(n) for the store's entry of n: cp := *n and the copy of the map.
cloneInto(h, cs, n) ==
    LET new == newMap(h)
    IN [h EXCEPT !.objs[new] = h.objs[h.own[n]],
                 !.snap[n] = cloneModels(h.own[n], new),
                 !.cp[n] = [cs[n] EXCEPT !.models = NoModels]]

\* ClusterState.Snapshot(): cloneNode for every entry.
RECURSIVE cloneAll(_, _, _)
cloneAll(h, cs, todo) ==
    IF todo = {} THEN h
    ELSE LET n == CHOOSE x \in todo : \A y \in todo : NodeRank[x] <= NodeRank[y]
         IN cloneAll(cloneInto(h, cs, n), cs, todo \ {n})

\* A caller drops the snapshot it holds, if any, and takes a new one.
HeapSnapshot ==
    /\ heap' = collect([cloneAll([heap EXCEPT !.snap = [n \in Nodes |-> 0],
                                              !.cp = [n \in Nodes |-> NoNode]],
                                 cluster, Snapshot(cluster))
                        EXCEPT !.op = "snapshot"])
    /\ cluster' = view(cluster, heap')
    /\ UNCHANGED <<now, registry, strm, gates, req, policies, lat, pl, rpCache, hdr, agent, lk>>

\* UpsertNodeHello on the store: a new entry gets an empty map of its own.
HeapHello(n, url) ==
    /\ heap' = collect(IF cluster[n].known THEN [heap EXCEPT !.op = "hello"]
                       ELSE [heap EXCEPT !.objs[newMap(heap)] = NoModels,
                                         !.own[n] = newMap(heap), !.op = "hello"])
    /\ cluster' = view(UpsertNodeHello(cluster, n, url, now), heap')
    /\ UNCHANGED <<now, registry, strm, gates, req, policies, lat, pl, rpCache, hdr, agent, lk>>

\* Stream() builds the map of a STATUS and UpdateNodeStatus writes the fields
\* of the entry in place and makes n.Models refer to that map.
HeapStatus(n, msg) ==
    /\ cluster[n].known
    /\ heap' = collect([heap EXCEPT !.objs[newMap(heap)] = statusModels(msg),
                                    !.own[n] = newMap(heap), !.op = "status"])
    /\ cluster' = view(UpdateNodeStatus(cluster, n, msg.ramTotal, msg.ramAvail,
                                        msg.inflight, statusModels(msg), now), heap')
    /\ UNCHANGED <<now, registry, strm, gates, req, policies, lat, pl, rpCache, hdr, agent, lk>>

\* The caller writes to a copy it was given: a field, and an entry of the map.
HeapWriteCopy(n, m, res) ==
    /\ heap.snap[n] # 0
    /\ heap' = [heap EXCEPT !.objs[heap.snap[n]][m] = res,
                            !.cp[n].inflight = 1, !.op = "write"]
    /\ cluster' = view(cluster, heap')
    /\ UNCHANGED <<now, registry, strm, gates, req, policies, lat, pl, rpCache, hdr, agent, lk>>

\* ------------------------------------------------------ the proxy Director

\* hopByHopHeaders
hopByHopHeaders ==
    {"Connection", "Proxy-Connection", "Keep-Alive", "Proxy-Authenticate",
     "Proxy-Authorization", "Te", "Trailer", "Transfer-Encoding", "Upgrade"}

\* The end-to-end headers of this universe.
EndToEnd == {"Authorization", "X-Trace"}

HeaderNames == hopByHopHeaders \cup EndToEnd

\* The values a Connection header carries here; every other header carries "v".
\* "" is "the header is absent" (Header.Get returns "" for it).
ConnValues == {"close", "X-Trace", "keep-alive, x-trace", "Authorization,X-Trace"}

\* strings.Split(c, ",")
SplitComma(c) ==
    CASE c = "keep-alive, x-trace" -> <<"keep-alive", " x-trace">>
      [] c = "Authorization,X-Trace" -> <<"Authorization", "X-Trace">>
      [] OTHER -> <<c>>

\* strings.TrimSpace
TrimSpace(f) == IF f = " x-trace" THEN "x-trace" ELSE f

\* textproto.CanonicalMIMEHeaderKey, which Header.Get and Header.Del apply.
CanonicalMIMEHeaderKey(k) ==
    CASE k = "x-trace" -> "X-Trace"
      [] k = "keep-alive" -> "Keep-Alive"
      [] k = "close" -> "Close"
      [] OTHER -> k

\* http.Header.Del and http.Header.Get on a header of this universe.
HeaderDel(h, k) ==
    [x \in HeaderNames |-> IF x = CanonicalMIMEHeaderKey(k) THEN "" ELSE h[x]]

HeaderGet(h, k) ==
    IF CanonicalMIMEHeaderKey(k) \in HeaderNames THEN h[CanonicalMIMEHeaderKey(k)] ELSE ""

\* The loop over hopByHopHeaders.
delHopByHop(h) == [x \in HeaderNames |-> IF x \in hopByHopHeaders THEN "" ELSE h[x]]

\* The loop over the fields of the Connection value.
RECURSIVE delFields(_, _)
delFields(h, fs) ==
    IF fs = <<>> THEN h
    ELSE delFields(HeaderDel(h, TrimSpace(Head(fs))), Tail(fs))

\* The Director of reverseProxy, as far as it touches the header: the
\* hop-by-hop headers go first, then the Connection header is read.
Director(h) ==
    LET h1 == delHopByHop(h)
        c == HeaderGet(h1, "Connection")
    IN IF c # "" THEN delFields(h1, SplitComma(c)) ELSE h1

\* The headers an incoming request can carry.
Headers ==
    {[x \in HeaderNames |->
         IF x = "Connection" THEN c ELSE IF x \in S THEN "v" ELSE ""] :
       S \in SUBSET (HeaderNames \ {"Connection"}), c \in ConnValues \cup {""}}

NoHdr == [pc |-> "idle", in |-> [x \in HeaderNames |-> ""],
          out |-> [x \in HeaderNames |-> ""]]

\* ServeHTTP calls the Director on the outgoing request.
DirectorStep ==
    /\ hdr.pc = "in"
    /\ hdr' = [hdr EXCEPT !.pc = "out", !.out = Director(hdr.in)]
    /\ UNCHANGED <<now, cluster, registry, strm, gates, req, policies, lat, pl, rpCache,
                   heap, agent, lk>>

\* ----------------------------------------------------------- the node agent

\* The agent of worker n1 on stream s1, with its llama-server.
AgentNode == "n1"

AgentStream == "s1"

\* No message: what a task that is not inside stream.Send holds, and the
\* frame of a receive task between two frames.
NoSend == [kind |-> "", body |-> NoMsg, requestID |-> <<"", 0>>, ok |-> FALSE]

NoFrame == [kind |-> "", requestID |-> <<"", 0>>, model |-> ""]

\* llama is what the llama-server holds (status value per model), lastModels
\* what refreshModels stored last, hbAt the time of the last heartbeat the
\* main loop took, ping the token in pingTrigger, in the frames on the way to
\* the receive task, send the message each task has inside stream.Send, out
\* the messages on the way to the router.  prev is the residency list of the
\* STATUS the agent sent last, and kept[m] tells that it listed m as READY
\* and that the llama-server has held m loaded ever since.
NoAgent == [llama |-> [m \in Models |-> "unloaded"],
            lastModels |-> [m \in Models |-> "unloaded"],
            hbAt |-> 0, ping |-> FALSE, in |-> <<>>,
            send |-> [main |-> NoSend, recv |-> NoSend], out |-> <<>>,
            prev |-> [m \in Models |-> NotListed],
            kept |-> [m \in Models |-> FALSE]]

\* mapLlamaStatus
mapLlamaStatus(value, failed) ==
    IF failed THEN WireError
    ELSE CASE value = "loaded" -> WireReady
           [] value = "loading" -> WireLoading
           [] value = "unloaded" -> WireUnloaded
           [] OTHER -> WireUnloaded

\* convertModels: every model of the last poll, with loaded_since = now.
convertModels(last, t) ==
    [m \in Models |-> Listed(mapLlamaStatus(last[m], FALSE), t)]

\* sendStatus up to stream.Send: readMeminfo and the NodeStatus.
buildStatus(ag, t) ==
    [kind |-> "status",
     body |-> [ramTotal |-> 8192, ramAvail |-> 4096, inflight |-> 0,
               models |-> convertModels(ag.lastModels, t)],
     requestID |-> <<"", 0>>, ok |-> FALSE]

\* The agent with the STATUS of time t inside the main task's stream.Send.
withStatus(ag, t) ==
    [ag EXCEPT !.send.main = buildStatus(ag, t),
               !.prev = buildStatus(ag, t).body.models,
               !.kept = [m \in Models |->
                           /\ buildStatus(ag, t).body.models[m].state = WireReady
                           /\ ag.llama[m] = "loaded"]]

\* The llama-server loads a model for a request of the data plane.
LlamaLoad(m) ==
    /\ agent.llama[m] = "unloaded"
    /\ agent' = [agent EXCEPT !.llama[m] = "loaded"]
    /\ UNCHANGED <<now, cluster, registry, strm, gates, req, policies, lat, pl, rpCache,
                   heap, hdr, lk>>

\* runOnce, main loop, case <-modelsTicker.C: refreshModels.
AgentPollModels ==
    /\ agent.send.main = NoSend
    /\ agent.lastModels # agent.llama
    /\ agent' = [agent EXCEPT !.lastModels = agent.llama]
    /\ UNCHANGED <<now, cluster, registry, strm, gates, req, policies, lat, pl, rpCache,
                   heap, hdr, lk>>

\* runOnce, main loop, case <-tHeartbeat.C: sendStatus enters stream.Send.
AgentHeartbeat ==
    /\ agent.send.main = NoSend
    /\ agent.hbAt < now
    /\ agent' = [withStatus(agent, now) EXCEPT !.hbAt = now]
    /\ UNCHANGED <<now, cluster, registry, strm, gates, req, policies, lat, pl, rpCache,
                   heap, hdr, lk>>

\* runOnce, main loop, case <-pingTrigger: sendStatus enters stream.Send.
AgentPingStatus ==
    /\ agent.send.main = NoSend
    /\ agent.ping
    /\ agent' = [withStatus(agent, now) EXCEPT !.ping = FALSE]
    /\ UNCHANGED <<now, cluster, registry, strm, gates, req, policies, lat, pl, rpCache,
                   heap, hdr, lk>>

\* The receive task takes an UNLOAD-MODEL: ll.UnloadModel (it succeeds or
\* fails), the ACK with the frame's request id, and stream.Send is entered.
AgentRecvUnload(ok) ==
    /\ agent.in # <<>> /\ Head(agent.in).kind = "unload"
    /\ agent.send.recv = NoSend
    /\ agent' = [agent EXCEPT
                    !.in = Tail(@),
                    !.llama[Head(agent.in).model] = IF ok THEN "unloaded" ELSE @,
                    !.kept[Head(agent.in).model] = IF ok THEN FALSE ELSE @,
                    !.send.recv = [kind |-> "ack", body |-> NoMsg,
                                   requestID |-> Head(agent.in).requestID, ok |-> ok]]
    /\ UNCHANGED <<now, cluster, registry, strm, gates, req, policies, lat, pl, rpCache,
                   heap, hdr, lk>>

\* The receive task takes a PING: a token goes to pingTrigger unless it holds one.
AgentRecvPing ==
    /\ agent.in # <<>> /\ Head(agent.in).kind = "ping"
    /\ agent.send.recv = NoSend
    /\ agent' = [agent EXCEPT !.in = Tail(@), !.ping = TRUE]
    /\ UNCHANGED <<now, cluster, registry, strm, gates, req, policies, lat, pl, rpCache,
                   heap, hdr, lk>>

\* stream.Send returns to task k: the message is on its way to the router.
AgentSendDone(k) ==
    /\ agent.send[k] # NoSend
    /\ Len(agent.out) < MaxQueue
    /\ agent' = [agent EXCEPT !.send[k] = NoSend, !.out = Append(@, agent.send[k])]
    /\ UNCHANGED <<now, cluster, registry, strm, gates, req, policies, lat, pl, rpCache,
                   heap, hdr, lk>>

\* The gates after the notifier ran for every READY residency of a STATUS
\* (no request holds a gate in the agent specifications).
RECURSIVE notifyAll(_, _)
notifyAll(gs, ms) ==
    IF ms = {} THEN gs
    ELSE LET m == CHOOSE x \in ms : TRUE
         IN notifyAll([getGate(gs, m) EXCEPT ![m].loadingNode = ""], ms \ {m})

\* Stream() takes the agent's next message: a STATUS goes through the
\* notifier and UpdateNodeStatus, an ACK is logged.
RouterRecv ==
    /\ agent.out # <<>>
    /\ strm[AgentStream].pc = "recv" /\ strm[AgentStream].node = AgentNode
    /\ LET msg == Head(agent.out)
       IN IF msg.kind = "status"
          THEN /\ gates' = notifyAll(gates, readyOf(msg.body))
               /\ cluster' = UpdateNodeStatus(cluster, AgentNode, msg.body.ramTotal,
                                              msg.body.ramAvail, msg.body.inflight,
                                              statusModels(msg.body), now)
               /\ strm' = strm
          ELSE /\ strm' = [strm EXCEPT ![AgentStream].ignored =
                                          IF msg.ok THEN "ack ok" ELSE "ack failed"]
               /\ UNCHANGED <<gates, cluster>>
    /\ agent' = [agent EXCEPT !.out = Tail(@)]
    /\ UNCHANGED <<now, registry, req, policies, lat, pl, rpCache, heap, hdr, lk>>

\* The frames of plan p that go out on the agent's stream.
RECURSIVE framesFor(_, _)
framesFor(cmds, s) ==
    IF cmds = <<>> THEN <<>>
    ELSE (IF Head(cmds).stream = s
          THEN <<[kind |-> "unload", requestID |-> Head(cmds).requestID,
                  model |-> Head(cmds).model]>>
          ELSE <<>>) \o framesFor(Tail(cmds), s)

\* Planner.tick from the snapshot to its return: pl keeps what the tick sent,
\* and the frames for the agent's stream are on their way to its receive task.
AgentPlannerTick ==
    /\ \E ordN \in Perms(Snapshot(cluster)) :
       \E mo \in [Nodes -> Perms(Models)] :
       \E tb \in [Nodes -> Perms(Models)] :
          pl' = pressurePass(ttlPass(NoPlan, registry, now, cluster, policies, ordN, mo),
                             registry, now, cluster, policies, ordN, tb)
    /\ Len(agent.in) + Len(framesFor(pl'.cmds, AgentStream)) <= MaxQueue
    /\ agent' = [agent EXCEPT !.in = @ \o framesFor(pl'.cmds, AgentStream)]
    /\ UNCHANGED <<now, cluster, registry, strm, gates, req, policies, lat, rpCache,
                   heap, hdr, lk>>

\* NodeControlService.BroadcastPing: a PING goes out on the agent's stream.
BroadcastPing ==
    /\ registry[AgentNode] = AgentStream
    /\ Len(agent.in) < MaxQueue
    /\ agent' = [agent EXCEPT !.in = Append(@, [kind |-> "ping", requestID |-> <<"", 0>>,
                                                model |-> ""])]
    /\ UNCHANGED <<now, cluster, registry, strm, gates, req, policies, lat, pl, rpCache,
                   heap, hdr, lk>>

\* ------------------------------------------------------------- the locks

\* The tasks that run the router's operations side by side.
NTasks == 3

Tasks == 1..NTasks

\* The models that have a gate and the workers that have a session here.
LockModels == {"m1"}

LockNodes == {"n1", "n2"}

\* One step of an operation that matters to the locks: Lock, Unlock, RLock
\* and RUnlock of a mutex, Send of a frame on a worker's stream, Wait of a
\* request in the gate wait (the select on notifyCh, deadline and poll timer).
Do(op, kind, id) == [op |-> op, on |-> <<kind, id>>]

NoInstr == Do("", "", "")

\* Router.gatesMu, modelGate.mu and NodeControlService.mu.
gatesMu == <<"gatesMu", "">>

gateMu(m) == <<"gate", m>>

registryMu == <<"registry", "">>

\* ClusterState.Snapshot: the read lock for the copy.
SnapshotLocks == <<Do("RLock", "cluster", ""), Do("RUnlock", "cluster", "")>>

\* ClusterState.SnapshotOnline is a filtered Snapshot under the same lock.
SnapshotOnlineLocks == <<Do("RLock", "cluster", ""), Do("RUnlock", "cluster", "")>>

\* ClusterState.UpsertNodeHello and UpdateNodeStatus: the write lock.
UpdateLocks == <<Do("Lock", "cluster", ""), Do("Unlock", "cluster", "")>>

\* LatencyTracker.Get, once for the nodes scoreNode looks at.
LatencyGetLocks == <<Do("RLock", "latency", ""), Do("RUnlock", "latency", "")>>

\* LatencyTracker.observe
observeLocks == <<Do("Lock", "latency", ""), Do("Unlock", "latency", "")>>

\* Router.getGate: gatesMu is released when it returns.
getGateLocks == <<Do("Lock", "gatesMu", ""), Do("Unlock", "gatesMu", "")>>

\* pickNodeForModel on its three ways out: a READY worker is scored and
\* returned before any gate; the gate names a loader of the snapshot; a
\* new loader is scored and marked while the gate's lock is held (defer).
pickLocks(m) ==
    { SnapshotOnlineLocks \o LatencyGetLocks,
      SnapshotOnlineLocks \o getGateLocks
         \o <<Do("Lock", "gate", m), Do("Unlock", "gate", m)>>,
      SnapshotOnlineLocks \o getGateLocks
         \o <<Do("Lock", "gate", m)>> \o LatencyGetLocks \o <<Do("Unlock", "gate", m)>> }

\* NotifyModelReady: getGate, then the gate's lock around the wake-up.
NotifyModelReadyLocks(m) ==
    getGateLocks \o <<Do("Lock", "gate", m), Do("Unlock", "gate", m)>>

\* waitModelReady: getGate, the fast path, and one round of the loop: the
\* channel is read under the gate's lock, the select runs after the unlock,
\* and isModelReadyOnNode takes a snapshot.
waitModelReadyLocks(m) ==
    { getGateLocks \o SnapshotLocks,
      getGateLocks \o SnapshotLocks
         \o <<Do("Lock", "gate", m), Do("Unlock", "gate", m), Do("Wait", "notifyCh", m)>>
         \o SnapshotLocks }

\* Stream(), case Status: the notifier for a READY residency (or none),
\* UpdateNodeStatus, and the read of the registry for the authority check.
StreamStatusLocks ==
    { UpdateLocks \o <<Do("RLock", "registry", ""), Do("RUnlock", "registry", "")>> }
    \cup { NotifyModelReadyLocks(m) \o UpdateLocks
              \o <<Do("RLock", "registry", ""), Do("RUnlock", "registry", "")>> :
           m \in LockModels }

\* attach and detach: the registry's write lock.
attachLocks == <<Do("Lock", "registry", ""), Do("Unlock", "registry", "")>>

detachLocks == <<Do("Lock", "registry", ""), Do("Unlock", "registry", "")>>

\* Stream(), case Hello: UpsertNodeHello, then attach.
StreamHelloLocks == UpdateLocks \o attachLocks

\* A faulty variant of SendUnload that keeps the registry's read lock until
\* it returns.
SendUnloadLocksDeferred(n) ==
    <<Do("RLock", "registry", ""),
      Do("Lock", "sendMu", n), Do("Send", "stream", n), Do("Unlock", "sendMu", n),
      Do("RUnlock", "registry", "")>>

\* SendUnload: the session is read under the registry's read lock; the frame
\* is sent under the session's send mutex.
SendUnloadLocks(n) ==
    <<Do("RLock", "registry", ""), Do("RUnlock", "registry", ""),
      Do("Lock", "sendMu", n), Do("Send", "stream", n), Do("Unlock", "sendMu", n)>>

\* BroadcastPing: the sessions are copied under the registry's read lock.
BroadcastPingLocks == <<Do("RLock", "registry", ""), Do("RUnlock", "registry", "")>>

\* The task BroadcastPing starts for a session.
pingSendLocks(n) ==
    <<Do("Lock", "sendMu", n), Do("Send", "stream", n), Do("Unlock", "sendMu", n)>>

\* activity.Log.Add
ActivityAddLocks == <<Do("Lock", "activity", ""), Do("Unlock", "activity", "")>>

\* Planner.tick: the snapshot, and for an unload tryUnload: SendUnload and the
\* two entries of the activity log.
tickLocks ==
    { SnapshotLocks }
    \cup { SnapshotLocks \o SendUnloadLocks(n) \o ActivityAddLocks \o ActivityAddLocks :
           n \in LockNodes }

\* reverseProxy: the cache is read under rpMu, and written under it when the
\* proxy was built.
reverseProxyLocks ==
    { <<Do("Lock", "rpMu", ""), Do("Unlock", "rpMu", "")>>,
      <<Do("Lock", "rpMu", ""), Do("Unlock", "rpMu", ""),
        Do("Lock", "rpMu", ""), Do("Unlock", "rpMu", "")>> }

\* What a task can run.
Programs ==
    UNION {pickLocks(m) : m \in LockModels}
    \cup UNION {waitModelReadyLocks(m) : m \in LockModels}
    \cup {NotifyModelReadyLocks(m) : m \in LockModels}
    \cup StreamStatusLocks
    \cup {StreamHelloLocks, detachLocks, BroadcastPingLocks, observeLocks}
    \cup {SendUnloadLocks(n) : n \in LockNodes}
    \cup {pingSendLocks(n) : n \in LockNodes}
    \cup tickLocks
    \cup reverseProxyLocks

\* No task runs anything.
NoLocks == [t \in Tasks |-> [prog |-> <<>>, pc |-> 1]]

\* The step a task is at.
Cur(t) == IF lk[t].pc <= Len(lk[t].prog) THEN lk[t].prog[lk[t].pc] ELSE NoInstr

\* The locks a program holds after its first k steps, with their mode.
RECURSIVE heldAfter(_, _)
heldAfter(prog, k) ==
    IF k = 0 THEN {}
    ELSE LET h == heldAfter(prog, k - 1)
             i == prog[k]
         IN CASE i.op = "Lock" -> h \cup {<<i.on, "w">>}
              [] i.op = "RLock" -> h \cup {<<i.on, "r">>}
              [] i.op = "Unlock" -> h \ {<<i.on, "w">>}
              [] i.op = "RUnlock" -> h \ {<<i.on, "r">>}
              [] OTHER -> h

Held(t) == heldAfter(lk[t].prog, lk[t].pc - 1)

Holds(t, l) == <<l, "w">> \in Held(t) \/ <<l, "r">> \in Held(t)

\* The tasks that keep t from taking the lock it is at.  A Lock waits for
\* every holder; an RLock waits for the writer and, as sync.RWMutex lets no
\* reader in once a writer has called Lock, for the tasks that are at a Lock.
WaitsFor(t) ==
    CASE Cur(t).op = "Lock" -> {u \in Tasks : Holds(u, Cur(t).on)}
      [] Cur(t).op = "RLock" ->
            {u \in Tasks : <<Cur(t).on, "w">> \in Held(u)}
            \cup {u \in Tasks \ {t} : Cur(u).op = "Lock" /\ Cur(u).on = Cur(t).on}
      [] OTHER -> {}

\* The task after the step it is at; it is idle again after its last step.
Advance(t) ==
    IF lk[t].pc = Len(lk[t].prog)
    THEN [lk EXCEPT ![t] = [prog |-> <<>>, pc |-> 1]]
    ELSE [lk EXCEPT ![t].pc = @ + 1]

\* An idle task begins an operation.
StartTask(t, prog) ==
    /\ lk[t].prog = <<>>
    /\ lk' = [lk EXCEPT ![t] = [prog |-> prog, pc |-> 1]]
    /\ UNCHANGED <<now, cluster, registry, strm, gates, req, policies, lat, pl, rpCache,
                   heap, hdr, agent>>

\* Lock and RLock return when nothing stands in the way.
LockStep(t) ==
    /\ Cur(t).op \in {"Lock", "RLock"}
    /\ WaitsFor(t) = {}
    /\ lk' = Advance(t)
    /\ UNCHANGED <<now, cluster, registry, strm, gates, req, policies, lat, pl, rpCache,
                   heap, hdr, agent>>

\* Unlock and RUnlock.
UnlockStep(t) ==
    /\ Cur(t).op \in {"Unlock", "RUnlock"}
    /\ lk' = Advance(t)
    /\ UNCHANGED <<now, cluster, registry, strm, gates, req, policies, lat, pl, rpCache,
                   heap, hdr, agent>>

\* stream.Send returns.
SendStep(t) ==
    /\ Cur(t).op = "Send"
    /\ lk' = Advance(t)
    /\ UNCHANGED <<now, cluster, registry, strm, gates, req, policies, lat, pl, rpCache,
                   heap, hdr, agent>>

\* The select of the gate wait returns.
WaitStep(t) ==
    /\ Cur(t).op = "Wait"
    /\ lk' = Advance(t)
    /\ UNCHANGED <<now, cluster, registry, strm, gates, req, policies, lat, pl, rpCache,
                   heap, hdr, agent>>

\* ------------------------------------------------------- the specification

\* The state after main() built the components: nothing known, no gate.
Init ==
    /\ now = 1
    /\ cluster = [n \in Nodes |-> NoNode]
    /\ registry = [n \in Nodes |-> ""]
    /\ strm = [s \in Streams |-> NewStream]
    /\ gates = [m \in Models |-> NoGate]
    /\ req = [r \in Requests |-> NewReq]
    /\ policies = [m \in Models |-> NoPolicy]
    /\ lat = [n \in Nodes |-> 0]
    /\ pl = NoPlan
    /\ rpCache = NoProxies
    /\ heap = NoHeap
    /\ hdr = NoHdr
    /\ agent = NoAgent
    /\ lk = NoLocks

\* The steps of the control streams.  An agent sends its HELLO once, as the
\* first message of its stream, and its STATUS messages after it.
StreamNext ==
    \/ \E s \in Streams, u \in URLs :
          strm[s].node = "" /\ StreamHello(s, HelloNode[s], u)
    \/ \E s \in Streams, msg \in RouterStatusMsgs :
          strm[s].node # "" /\ StreamStatus(s, msg)
    \/ \E s \in Streams, m \in Models : NotifyLock(s, m)
    \/ \E s \in Streams : NotifyModelReady(s)
    \/ \E s \in Streams : StreamUpdate(s)

\* pickNodeForModel.  The requests are interchangeable: they arrive in the
\* order of their numbers.
PickNext ==
    \/ \E r \in Requests, m \in ReqModels, a \in AuthRecords :
          (\A q \in Requests : q < r => req[q].pc # "new") /\ PickSnapshot(r, m, a)
    \/ \E r \in Requests : PickLock(r)
    \/ \E r \in Requests : PickGate(r)

\* waitModelReady, and the client going away.
WaitNext ==
    \/ \E r \in Requests : WaitFast(r)
    \/ \E r \in Requests : WaitRead(r)
    \/ \E r \in Requests : WaitTimeout(r)
    \/ \E r \in Requests : WaitWake(r)
    \/ \E r \in Requests : WaitPoll(r)
    \/ \E r \in Requests : Cancel(r)

\* The router while every heartbeat is fresh: the clock stands still.
Next == StreamNext \/ PickNext \/ WaitNext

Spec == Init /\ [][Next]_vars

\* The router with the clock running: heartbeats age and workers go offline.
\* The requests are followed up to the return of pickNodeForModel.
\* The picks run one after the other and carry no ACL.
TimePickNext ==
    \/ \E r \in Requests, m \in ReqModels :
          /\ \A q \in Requests : q < r => req[q].pc \notin {"new", "gate", "locked"}
          /\ PickSnapshot(r, m, NoAuth)
    \/ \E r \in Requests : PickLock(r)
    \/ \E r \in Requests : PickGate(r)

NextTime == Tick \/ StreamNext \/ TimePickNext

SpecTime == Init /\ [][NextTime]_vars

\* A cold start: a worker loads a model only when a request for it was
\* forwarded to that worker (the router sends no load command), so only such a
\* worker reports the model READY; the requests carry no ACL and come when
\* all workers are registered with a data-plane URL.
ColdStreamNext ==
    \/ \E s \in Streams, u \in URLs :
          strm[s].node = "" /\ StreamHello(s, HelloNode[s], u)
    \/ \E s \in Streams : strm[s].node # "" /\ StreamStatus(s, StatusIdle)
    \/ \E s \in Streams :
          /\ \E r \in Requests : /\ req[r].pc = "forward"
                                 /\ req[r].node = strm[s].node
                                 /\ req[r].model = "m1"
          /\ StreamStatus(s, StatusReady)
    \/ \E s \in Streams, m \in Models : NotifyLock(s, m)
    \/ \E s \in Streams : NotifyModelReady(s)
    \/ \E s \in Streams : StreamUpdate(s)

ColdPickNext ==
    \/ \E r \in Requests, m \in ReqModels :
          /\ \A q \in Requests : q < r => req[q].pc # "new"
          /\ \A n \in Nodes : cluster[n].known /\ cluster[n].url # ""
          /\ PickSnapshot(r, m, NoAuth)
    \/ \E r \in Requests : PickLock(r)
    \/ \E r \in Requests : PickGate(r)

NextCold == ColdStreamNext \/ ColdPickNext \/ WaitNext

SpecCold == Init /\ [][NextCold]_vars

\* The scheduling of the waiters: a runnable task runs; a mutex that is freed
\* again and again is acquired; and once the deadline timer has fired the select
\* takes its case (the timer stays ready, the other cases do not).
Fairness ==
    /\ \A r \in Requests : /\ WF_vars(PickGate(r))
                           /\ WF_vars(WaitFast(r))
                           /\ SF_vars(WaitRead(r))
                           /\ SF_vars(WaitTimeout(r))
    /\ \A s \in Streams : WF_vars(NotifyModelReady(s))

SpecFair == Spec /\ Fairness

\* The planner with its inputs: the policies an administrator stores and the
\* workers' STATUS messages, while the clock runs and streams come and go.
Policy(m, pinned) == [ok |-> TRUE, ModelID |-> m, RAMRequiredBytes |-> 1024,
                      TTLSecs |-> 1, Pinned |-> pinned, Priority |-> 0]

\* A worker under RAM pressure that holds both models READY since time 1.
StatusLoaded == [ramTotal |-> 8192, ramAvail |-> 1024, inflight |-> 0,
                 models |-> [m \in Models |-> Listed(WireReady, 1)]]

PlanStatusMsgs == {StatusIdle, StatusLoaded}

\* The first worker reports again and again and its stream may end; the
\* second worker reports once, loaded.
PlanStreamNext ==
    \/ \E s \in Streams :
          strm[s].node = "" /\ StreamHello(s, HelloNode[s], "http://w")
    \/ \E s \in Streams, msg \in PlanStatusMsgs :
          /\ strm[s].node # ""
          /\ s = "s2" => msg = StatusLoaded /\ cluster[strm[s].node].ramTotal = 0
          /\ StreamStatus(s, msg)
    \/ \E s \in Streams, m \in Models : NotifyLock(s, m)
    \/ \E s \in Streams : NotifyModelReady(s)
    \/ \E s \in Streams : StreamUpdate(s)
    \/ StreamClose("s1")

NextPlan ==
    \/ Tick
    \/ PlanStreamNext
    \/ \E m \in Models, pinned \in BOOLEAN : UpsertPolicy(Policy(m, pinned))
    \/ PlannerTick
    \/ PlannerReturn

SpecPlan == Init /\ [][NextPlan]_vars


\* One planner tick on a cluster state, a policy store and a session registry
\* drawn from the states the streams and the administrator can leave behind.
TickResidencies(t) ==
    {NoRes, [state |-> "ready", loadedSince |-> ZeroTime],
            [state |-> "loading", loadedSince |-> 1]}
      \cup {[state |-> "ready", loadedSince |-> u] : u \in 1..(IF t < 2 THEN t ELSE 2)}

\* The first worker in every state, the second one unknown or loaded and idle.
TickNodes(n, t) ==
    IF n = "n1"
    THEN {NoNode} \cup
         {[known |-> TRUE, url |-> "http://w", hb |-> 1, ramTotal |-> 8192,
           ramAvail |-> a, inflight |-> i, models |-> ms] :
             a \in {0, 1024, 4096}, i \in {0, 1}, ms \in [Models -> TickResidencies(t)]}
    ELSE {NoNode,
          [known |-> TRUE, url |-> "http://w", hb |-> 1, ramTotal |-> 8192,
           ramAvail |-> 0, inflight |-> 0,
           models |-> [m \in Models |-> [state |-> "ready", loadedSince |-> 1]]]}

TickPolicies(m) ==
    {NoPolicy,
     [ok |-> TRUE, ModelID |-> m, RAMRequiredBytes |-> 1024, TTLSecs |-> 1,
      Pinned |-> FALSE, Priority |-> 0],
     [ok |-> TRUE, ModelID |-> m, RAMRequiredBytes |-> 1024, TTLSecs |-> 0,
      Pinned |-> FALSE, Priority |-> 1],
     [ok |-> TRUE, ModelID |-> m, RAMRequiredBytes |-> 1024, TTLSecs |-> 1,
      Pinned |-> TRUE, Priority |-> 0]}

\* The stream of node n's agent.
StreamOf(n) == CHOOSE s \in Streams : HelloNode[s] = n

InitTick ==
    /\ now \in 1..(MaxTime + 1)
    /\ cluster \in {c \in [Nodes -> UNION {TickNodes(n, now) : n \in Nodes}] :
                       \A n \in Nodes : c[n] \in TickNodes(n, now)}
    /\ registry \in {g \in [Nodes -> Streams \cup {""}] :
                        \A n \in Nodes : g[n] # "" => cluster[n].known /\ g[n] = StreamOf(n)}
    /\ strm = [s \in Streams |->
                 IF registry[HelloNode[s]] = s
                 THEN [NewStream EXCEPT !.node = HelloNode[s]] ELSE NewStream]
    /\ gates = [m \in Models |-> NoGate]
    /\ req = [r \in Requests |-> NewReq]
    /\ policies \in {q \in [Models -> UNION {TickPolicies(m) : m \in Models}] :
                        \A m \in Models : q[m] \in TickPolicies(m)}
    /\ lat = [n \in Nodes |-> 0]
    /\ pl = NoPlan
    /\ rpCache = NoProxies
    /\ heap = NoHeap
    /\ hdr = NoHdr
    /\ agent = NoAgent
    /\ lk = NoLocks

NextTick == PlannerTick \/ PlannerReturn

SpecTick == InitTick /\ [][NextTick]_vars


\* The control service alone: connections come and go, an agent may use any
\* node id (two agents may use the same one) and may send its messages in any
\* order.
ConnStreamNext ==
    \/ \E s \in Streams, n \in Nodes : StreamHello(s, n, "http://w")
    \/ \E s \in Streams, msg \in RouterStatusMsgs : StreamStatus(s, msg)
    \/ \E s \in Streams, m \in Models : NotifyLock(s, m)
    \/ \E s \in Streams : NotifyModelReady(s)
    \/ \E s \in Streams : StreamUpdate(s)
    \/ \E s \in Streams : StreamClose(s)

NextConn == ConnStreamNext

SpecConn == Init /\ [][NextConn]_vars


\* Placement on a cluster state that stands still: both workers are online
\* with a data-plane URL; their RAM, in-flight counts, residencies of m1 and
\* latency records and the policy of m1 are drawn from the values a STATUS, the
\* proxy and an administrator can leave behind.  Two requests for m1 are placed
\* one after the other.
ScoreNodes ==
    {[known |-> TRUE, url |-> "http://w", hb |-> 1, ramTotal |-> 16384,
      ramAvail |-> a, inflight |-> i,
      models |-> [m \in Models |-> IF m = "m1" THEN res ELSE NoRes]] :
        a \in {0, 2048, 16384}, i \in {0, 1, BigInflight},
        res \in {NoRes, [state |-> "ready", loadedSince |-> 1],
                 [state |-> "loading", loadedSince |-> ZeroTime]}}

ScorePolicies ==
    {NoPolicy,
     [ok |-> TRUE, ModelID |-> "m1", RAMRequiredBytes |-> 1024, TTLSecs |-> 0,
      Pinned |-> FALSE, Priority |-> 0]}

InitScore ==
    /\ now = 1
    /\ cluster \in [Nodes -> ScoreNodes]
    /\ registry = [n \in Nodes |-> StreamOf(n)]
    /\ strm = [s \in Streams |-> [NewStream EXCEPT !.node = HelloNode[s]]]
    /\ gates = [m \in Models |-> NoGate]
    /\ req = [r \in Requests |-> NewReq]
    /\ policies \in {q \in [Models -> ScorePolicies \cup {NoPolicy}] :
                        q["m1"] \in ScorePolicies /\ q["m2"] = NoPolicy}
    /\ lat \in [Nodes -> {0, 100}]
    /\ pl = NoPlan
    /\ rpCache = NoProxies
    /\ heap = NoHeap
    /\ hdr = NoHdr
    /\ agent = NoAgent
    /\ lk = NoLocks

NextScore == TimePickNext

SpecScore == InitScore /\ [][NextScore]_vars


\* The model list while the clock runs: workers register and report, their
\* heartbeats age, and clients ask for the list.
NextModels ==
    \/ Tick
    \/ StreamNext
    \/ \E r \in Requests : HandleModels(r)

SpecModels == Init /\ [][NextModels]_vars


\* The data plane: the workers register (the second one under its own URL or
\* under the first one's) and report, and the POST requests run through the
\* handler from the body to the answer.
HTTPStreamNext ==
    \/ \E s \in Streams, u \in ProxyURLs :
          /\ strm[s].node = ""
          /\ s = "s1" => u = "http://w"
          /\ StreamHello(s, HelloNode[s], u)
    \/ \E s \in Streams, msg \in RouterStatusMsgs :
          strm[s].node # "" /\ StreamStatus(s, msg)
    \/ \E s \in Streams, m \in Models : NotifyLock(s, m)
    \/ \E s \in Streams : NotifyModelReady(s)
    \/ \E s \in Streams : StreamUpdate(s)

HTTPNext ==
    \/ \E r \in Requests, b \in Bodies, a \in AuthRecords :
          (\A q \in Requests : q < r => req[q].pc # "new") /\ HandleStart(r, b, a)
    \/ \E r \in Requests : PickLock(r)
    \/ \E r \in Requests : PickGate(r)
    \/ \E r \in Requests : ProxyStart(r)
    \/ \E r \in Requests, ok \in BOOLEAN, rtt \in RTTs : ProxyDone(r, ok, rtt)

NextHTTP == HTTPStreamNext \/ HTTPNext \/ WaitNext

SpecHTTP == Init /\ [][NextHTTP]_vars


\* The cluster state with its map objects: workers register and report while
\* a caller takes snapshots and writes to the copies it holds.
NextHeap ==
    \/ Tick
    \/ \E n \in Nodes : HeapHello(n, "http://w")
    \/ \E n \in Nodes, msg \in RouterStatusMsgs : HeapStatus(n, msg)
    \/ HeapSnapshot
    \/ \E n \in Nodes, m \in ReqModels, res \in {NoRes, [state |-> "error", loadedSince |-> ZeroTime]} :
          HeapWriteCopy(n, m, res)

SpecHeap == Init /\ [][NextHeap]_vars


\* The notifier and the waiters: both workers are registered and idle, an
\* earlier request has or has not left n1 as the loading owner of m1, and the
\* workers report, among others, a STATUS with m1 LOADING and m2 READY.
StatusMixed == [ramTotal |-> 8192, ramAvail |-> 2048, inflight |-> 0,
                models |-> [m \in Models |-> IF m = "m1" THEN Listed(WireLoading, 0)
                                             ELSE Listed(WireReady, 0)]]

InitNotify ==
    /\ now = 1
    /\ cluster = [n \in Nodes |->
                    [known |-> TRUE, url |-> "http://w", hb |-> 1, ramTotal |-> 8192,
                     ramAvail |-> 4096, inflight |-> 0, models |-> NoModels]]
    /\ registry = [n \in Nodes |-> StreamOf(n)]
    /\ strm = [s \in Streams |-> [NewStream EXCEPT !.node = HelloNode[s]]]
    /\ \E ln \in {"", "n1"} :
          gates = [m \in Models |->
                     IF m = "m1" THEN [newModelGate(NoGate) EXCEPT !.loadingNode = ln]
                     ELSE NoGate]
    /\ req = [r \in Requests |-> NewReq]
    /\ policies = [m \in Models |-> NoPolicy]
    /\ lat = [n \in Nodes |-> 0]
    /\ pl = NoPlan
    /\ rpCache = NoProxies
    /\ heap = NoHeap
    /\ hdr = NoHdr
    /\ agent = NoAgent
    /\ lk = NoLocks

NotifyStreamNext ==
    \/ \E s \in Streams, msg \in {StatusIdle, StatusReady, StatusMixed} : StreamStatus(s, msg)
    \/ \E s \in Streams, m \in Models : NotifyLock(s, m)
    \/ \E s \in Streams : NotifyModelReady(s)
    \/ \E s \in Streams : StreamUpdate(s)

NextNotify == NotifyStreamNext \/ TimePickNext \/ WaitNext

SpecNotify == InitNotify /\ [][NextNotify]_vars


\* The control service under a running clock: workers connect, report any of
\* the three STATUS messages in any order, and disconnect.
StatusStreamNext ==
    \/ \E s \in Streams, n \in Nodes : StreamHello(s, n, "http://w")
    \/ \E s \in Streams, msg \in {StatusIdle, StatusReady, StatusMixed} : StreamStatus(s, msg)
    \/ \E s \in Streams, m \in Models : NotifyLock(s, m)
    \/ \E s \in Streams : NotifyModelReady(s)
    \/ \E s \in Streams : StreamUpdate(s)
    \/ \E s \in Streams : StreamClose(s)

NextStatus == StatusStreamNext \/ Tick

SpecStatus == Init /\ [][NextStatus]_vars


\* The control service with agents that also acknowledge commands and send
\* messages of kinds the router does not know.
AckNext ==
    \/ \E s \in Streams, ok \in BOOLEAN : StreamAck(s, ok)
    \/ \E s \in Streams : StreamOther(s)

NextAck == ConnStreamNext \/ AckNext

SpecAck == Init /\ [][NextAck]_vars


\* The reverse-proxy cache under concurrent requests: the requests are placed
\* as in Spec, the workers may announce one data-plane URL, and reverseProxy
\* runs in its two critical sections.
ProxyNext ==
    \/ \E r \in Requests : ProxyLookup(r)
    \/ \E r \in Requests : ProxyStore(r)
    \/ \E r \in Requests, ok \in BOOLEAN, rtt \in RTTs : ProxyDone(r, ok, rtt)

NextProxy == HTTPStreamNext \/ PickNext \/ WaitNext \/ ProxyNext

SpecProxy == Init /\ [][NextProxy]_vars


\* The Director alone, on every header of the universe.
InitDirector ==
    /\ now = 1
    /\ cluster = [n \in Nodes |-> NoNode]
    /\ registry = [n \in Nodes |-> ""]
    /\ strm = [s \in Streams |-> NewStream]
    /\ gates = [m \in Models |-> NoGate]
    /\ req = [r \in Requests |-> NewReq]
    /\ policies = [m \in Models |-> NoPolicy]
    /\ lat = [n \in Nodes |-> 0]
    /\ pl = NoPlan
    /\ rpCache = NoProxies
    /\ heap = NoHeap
    /\ agent = NoAgent
    /\ lk = NoLocks
    /\ \E h \in Headers : hdr = [pc |-> "in", in |-> h, out |-> NoHdr.out]

NextDirector == DirectorStep

SpecDirector == InitDirector /\ [][NextDirector]_vars


\* The control service with workers that come back: a stream can HELLO for
\* any node id and either data-plane URL, also for a node that reported
\* before, and the clock runs.
HelloStreamNext ==
    \/ \E s \in Streams, n \in Nodes, u \in ProxyURLs : StreamHello(s, n, u)
    \/ \E s \in Streams, msg \in RouterStatusMsgs : StreamStatus(s, msg)
    \/ \E s \in Streams, m \in Models : NotifyLock(s, m)
    \/ \E s \in Streams : NotifyModelReady(s)
    \/ \E s \in Streams : StreamUpdate(s)
    \/ \E s \in Streams : StreamClose(s)

NextHello == HelloStreamNext \/ Tick

SpecHello == Init /\ [][NextHello]_vars


\* The loading owner through a request's life: the workers register and
\* report (idle, or m1 LOADING and m2 READY), the requests are placed, wait,
\* time out, and are forwarded with or without success.
OwnerStreamNext ==
    \/ \E s \in Streams :
          strm[s].node = "" /\ StreamHello(s, HelloNode[s], "http://w")
    \/ \E s \in Streams, msg \in {StatusIdle, StatusMixed} :
          strm[s].node # "" /\ StreamStatus(s, msg)
    \/ \E s \in Streams, m \in Models : NotifyLock(s, m)
    \/ \E s \in Streams : NotifyModelReady(s)
    \/ \E s \in Streams : StreamUpdate(s)

OwnerProxyNext ==
    \/ \E r \in Requests : ProxyStart(r)
    \/ \E r \in Requests, ok \in BOOLEAN, rtt \in RTTs : ProxyDone(r, ok, rtt)

\* A request is placed after the one before it has left pickNodeForModel.
OwnerPickNext ==
    \/ \E r \in Requests, m \in ReqModels, a \in AuthRecords :
          /\ \A q \in Requests : q < r => req[q].pc \notin {"new", "gate", "locked"}
          /\ PickSnapshot(r, m, a)
    \/ \E r \in Requests : PickLock(r)
    \/ \E r \in Requests : PickGate(r)

\* waitModelReady where no worker reports m1 READY: no READY notification
\* closes the channel of its gate, so the select never takes case <-ch.
OwnerWaitNext ==
    \/ \E r \in Requests : WaitFast(r)
    \/ \E r \in Requests : WaitRead(r)
    \/ \E r \in Requests : WaitTimeout(r)
    \/ \E r \in Requests : WaitPoll(r)
    \/ \E r \in Requests : Cancel(r)

NextOwner == OwnerStreamNext \/ OwnerPickNext \/ OwnerWaitNext \/ OwnerProxyNext

SpecOwner == Init /\ [][NextOwner]_vars


\* The waiters under a running clock: the workers of SpecNotify report m1
\* READY, or nothing for a while, and heartbeats age while requests wait.
WaitStreamNext ==
    \/ \E s \in Streams : StreamStatus(s, StatusReady)
    \/ \E s \in Streams, m \in Models : NotifyLock(s, m)
    \/ \E s \in Streams : NotifyModelReady(s)
    \/ \E s \in Streams : StreamUpdate(s)

NextWait == WaitStreamNext \/ TimePickNext \/ WaitNext \/ Tick

SpecWait == InitNotify /\ [][NextWait]_vars


\* The node agent of n1 with the router behind it: the agent is connected,
\* m1 has a TTL policy of one tick, the llama-server loads models and unloads
\* them on command, the router takes the agent's messages, pings, and plans.
InitAgent ==
    /\ now = 1
    /\ cluster = [n \in Nodes |->
                    IF n = AgentNode
                    THEN [NoNode EXCEPT !.known = TRUE, !.url = "http://w", !.hb = 1]
                    ELSE NoNode]
    /\ registry = [n \in Nodes |-> IF n = AgentNode THEN AgentStream ELSE ""]
    /\ strm = [s \in Streams |->
                 IF s = AgentStream THEN [NewStream EXCEPT !.node = AgentNode]
                 ELSE NewStream]
    /\ gates = [m \in Models |-> NoGate]
    /\ req = [r \in Requests |-> NewReq]
    /\ policies = [m \in Models |->
                     IF m = "m1"
                     THEN [ok |-> TRUE, ModelID |-> m, RAMRequiredBytes |-> 1024,
                           TTLSecs |-> 1, Pinned |-> FALSE, Priority |-> 0]
                     ELSE NoPolicy]
    /\ lat = [n \in Nodes |-> 0]
    /\ pl = NoPlan
    /\ rpCache = NoProxies
    /\ heap = NoHeap
    /\ hdr = NoHdr
    /\ agent = NoAgent
    /\ lk = NoLocks

AgentNext ==
    \/ \E m \in ReqModels : LlamaLoad(m)
    \/ AgentPollModels
    \/ AgentHeartbeat
    \/ AgentPingStatus
    \/ \E ok \in BOOLEAN : AgentRecvUnload(ok)
    \/ AgentRecvPing
    \/ \E k \in {"main", "recv"} : AgentSendDone(k)

AgentRouterNext == RouterRecv \/ AgentPlannerTick \/ BroadcastPing

NextAgent == AgentNext \/ AgentRouterNext \/ Tick

SpecAgent == InitAgent /\ [][NextAgent]_vars


\* The operations of the router side by side, as far as their locks go.
LocksNext ==
    \/ \E t \in Tasks, prog \in Programs : StartTask(t, prog)
    \/ \E t \in Tasks : LockStep(t)
    \/ \E t \in Tasks : UnlockStep(t)
    \/ \E t \in Tasks : SendStep(t)
    \/ \E t \in Tasks : WaitStep(t)

NextLocks == LocksNext

SpecLocks == Init /\ [][NextLocks]_vars


\* ===================================================================== claims

\* The cluster state holds model m as READY on node n.
ReadyOn(cs, m, n) == cs[n].known /\ cs[n].models[m].state = "ready"

\* Request r is past pickNodeForModel with a worker.
Placed(r) == req[r].pc \in {"wait", "loop", "select", "forward"} /\ req[r].node # ""

\* C1 (as stated): on a cold start every request for a model is placed on one
\* worker: the designated loader gets the designating request, the others wait
\* for that same worker, and no request goes to a second worker.
C1_OneLoadingWorker ==
    \A r1, r2 \in Requests :
        Placed(r1) /\ Placed(r2) /\ req[r1].model = req[r2].model
            => req[r1].node = req[r2].node

\* C2 (as stated): every step that releases a request for forwarding to worker
\* W finds model M READY on W in the cluster state.
C2_ForwardOnlyReady ==
    [][\A r \in Requests :
          req[r].pc # "forward" /\ req'[r].pc = "forward"
              => ReadyOn(cluster, req'[r].model, req'[r].node)]_vars

\* C2 (corrected): a step that releases a request for forwarding to worker W
\* finds model M READY on W in the cluster state, unless the request is the one
\* that made W the loading owner, which is forwarded at once so that W loads M.
C2_ForwardReadyOrLoader ==
    [][\A r \in Requests :
          req[r].pc # "forward" /\ req'[r].pc = "forward"
              => \/ ReadyOn(cluster, req'[r].model, req'[r].node)
                 \/ req'[r].how = "loader"]_vars

\* A request that waited at the gate has been released, and another one was
\* forwarded as the loading owner.
C2_Witness ==
    \E r1, r2 \in Requests :
        /\ req[r1].pc = "forward" /\ req[r1].how = "wait"
        /\ req[r2].pc = "forward" /\ req[r2].how = "loader"

\* C3 (as stated): when the READY notification of a STATUS has cleared the gate
\* and woken the waiters, the cluster state already holds that STATUS: the
\* model is READY there on the reporting worker.
C3_UpdateBeforeNotify ==
    \A s \in Streams : \A m \in Models :
        strm[s].pc = "notify" /\ m \in readyOf(strm[s].msg) \ strm[s].todo
            => ReadyOn(cluster, m, strm[s].node)

\* C4: a model id has at most one gate object, made once; the critical sections
\* of one gate exclude each other; and loading_node is written only by a step
\* of the task that holds the gate's mutex.
C4_GateDiscipline ==
    [][\A m \in Models :
          /\ gates'[m].obj <= 1
          /\ gates[m].exists => gates'[m].exists
          /\ Cardinality({r \in Requests : req'[r].pc = "locked" /\ req'[r].model = m})
               + Cardinality({s \in Streams : strm'[s].pc = "notifying" /\ strm'[s].cur = m})
               <= 1
          /\ gates'[m].loadingNode # gates[m].loadingNode
               => \/ \E r \in Requests : gates[m].mu = r /\ req[r].pc = "locked"
                  \/ \E s \in Streams : gates[m].mu = StreamTask[s]
                                            /\ strm[s].pc = "notifying"]_vars

\* The gate has a loading owner and a second task is in its critical section.
C4_Witness ==
    \E m \in Models : /\ gates[m].loadingNode # ""
                      /\ gates[m].mu # 0
                      /\ \E r \in Requests : req[r].how = "loader" /\ req[r].model = m

\* C5: the wait for (M, W) returns success only in a step whose check finds M
\* READY on W itself; a wake-up that finds M READY only on another worker sends
\* the waiter back to the top of its loop.
C5_WaitOwnWorker ==
    [][\A r \in Requests :
          /\ req[r].pc \in {"wait", "select"} /\ req'[r].pc = "forward"
               => ReadyOn(cluster, req[r].model, req[r].node)
          /\ req[r].pc = "select" /\ req[r].chClosed
               /\ ~ReadyOn(cluster, req[r].model, req[r].node)
               => req'[r].pc \in {"select", "loop", "e503"}]_vars

\* A waiter for W was woken while M is READY on another worker only.
C5_Witness ==
    \E r \in Requests : \E n \in Nodes :
        /\ req[r].pc = "select" /\ req[r].chClosed
        /\ n # req[r].node
        /\ ReadyOn(cluster, req[r].model, n)
        /\ ~ReadyOn(cluster, req[r].model, req[r].node)

\* C6: every request that enters the wait leaves it, released or timed out,
\* whatever STATUS messages arrive; and a request that timed out stays failed
\* (503) and is never forwarded.
C6_WaitTerminates ==
    /\ \A r \in Requests :
          (req[r].pc = "wait") ~> (req[r].pc \in {"forward", "e503"})
    /\ [][\A r \in Requests : req[r].pc = "e503" => req'[r].pc = "e503"]_vars

\* A request timed out in the wait: it has a worker but answered 503.
C6_Witness ==
    \E r \in Requests : req[r].pc = "e503" /\ req[r].how = "wait"

\* C7 (as stated): a request whose client went away during the wait is not
\* forwarded.
C7_CancelEndsWait ==
    \A r \in Requests : req[r].cancelled => req[r].pc # "forward"

\* Node n as the cluster state holds it is online at time t with a data-plane URL.
Routable(e, t) == t - e.hb <= NodeOfflineTTL /\ e.url # ""

\* C8: a pick that returns a worker (DIRECT or WAIT) returns one that was
\* online with a non-empty data-plane URL when the call read the cluster, READY
\* or not; and the pick fails with "no nodes available" when the call found no
\* such worker.
C8_PickOnlineWithURL ==
    [][\A r \in Requests :
          /\ req[r].pc = "new" /\ req'[r].pc = "forward"
               => /\ cluster[req'[r].node].known
                  /\ Routable(cluster[req'[r].node], now)
                  /\ req'[r].url = cluster[req'[r].node].url
          /\ req[r].pc = "locked" /\ req'[r].pc \in {"wait", "forward"}
               => /\ req'[r].node \in DOMAIN req[r].snap
                  /\ Routable(req[r].snap[req'[r].node], req[r].t0)
                  /\ req'[r].url = req[r].snap[req'[r].node].url
          /\ req[r].pc = "new" /\ req'[r].pc = "gate"
               => \A n \in Nodes :
                     cluster[n].known /\ Routable(cluster[n], now)
                         => n \in DOMAIN req'[r].snap
          /\ req[r].pc = "locked" /\ req'[r].pc # "locked"
               => (req'[r].pc = "e503"
                      <=> \A n \in DOMAIN req[r].snap :
                             ~Routable(req[r].snap[n], req[r].t0))]_vars

\* A pick returned a worker although another one, offline when the call read
\* the cluster, holds the model READY and has a data-plane URL.
C8_Witness ==
    \E r \in Requests : \E n \in Nodes :
        /\ req[r].pc = "forward"
        /\ n # req[r].node
        /\ cluster[n].known /\ cluster[n].url # ""
        /\ cluster[n].models[req[r].model].state = "ready"
        /\ req[r].t0 - cluster[n].hb > NodeOfflineTTL

\* C9 (as stated): a planner tick sends no UNLOAD-MODEL, in the TTL pass or in
\* the pressure pass, to a worker whose last heartbeat is older than the
\* offline TTL.
C9_NoUnloadToOffline ==
    [][pl = NoPlan
          => \A i \in 1..Len(pl'.cmds) :
                IsOnline(cluster[pl'.cmds[i].node], now, NodeOfflineTTL)]_vars

\* C10: a planner tick sends no UNLOAD-MODEL, for reason ttl or pressure, for a
\* model whose policy is pinned, whatever its TTL, its priority and the RAM
\* pressure on the worker.
C10_NeverUnloadPinned ==
    [][pl = NoPlan
          => \A i \in 1..Len(pl'.cmds) :
                ~(policies[pl'.cmds[i].model].ok /\ policies[pl'.cmds[i].model].Pinned)]_vars

\* A tick sent unloads to a worker under RAM pressure that also holds a pinned
\* model, READY and past its TTL.
C10_Witness ==
    \E n \in Nodes : \E m \in Models :
        /\ \E i \in 1..Len(pl.cmds) : pl.cmds[i].node = n /\ pl.cmds[i].requestID[2] = now
        /\ policies[m].ok /\ policies[m].Pinned /\ policies[m].TTLSecs > 0
        /\ cluster[n].models[m].state = "ready"
        /\ cluster[n].models[m].loadedSince # ZeroTime
        /\ now - cluster[n].models[m].loadedSince >= policies[m].TTLSecs
        /\ cluster[n].inflight = 0
        /\ cluster[n].ramAvail < MinFreeBytes

\* The planner sent, in the tick whose frames p holds, an UNLOAD-MODEL with
\* the given reason for model m to node n.
Unloaded(p, n, m, reason) ==
    \E i \in 1..Len(p.cmds) :
        /\ p.cmds[i].node = n
        /\ p.cmds[i].model = m
        /\ p.cmds[i].requestID[1] = reason

\* The conditions of the TTL pass as the specification lists them.
TTLExpired(n, m) ==
    /\ cluster[n].known
    /\ cluster[n].inflight = 0
    /\ cluster[n].models[m].state = "ready"
    /\ policies[m].ok /\ policies[m].TTLSecs > 0 /\ ~policies[m].Pinned
    /\ cluster[n].models[m].loadedSince # ZeroTime
    /\ now - cluster[n].models[m].loadedSince >= policies[m].TTLSecs

EvictBefore(n, a, b) ==
    LET pa == IF policies[a].ok THEN policies[a].Priority ELSE 0
        pb == IF policies[b].ok THEN policies[b].Priority ELSE 0
        ta == cluster[n].models[a].loadedSince
        tb == cluster[n].models[b].loadedSince
    IN IF pa # pb THEN pa < pb
       ELSE IF ta # tb THEN (tb = ZeroTime \/ (ta # ZeroTime /\ ta < tb))
       ELSE ModelRank[a] < ModelRank[b]

\* C12 (as stated): the pressure unloads of a tick for one worker come in the
\* order priority ascending, then oldest loaded_since, then model id
\* ascending, which is total: of two candidates the one that this order puts
\* first is never unloaded after the other.
C12_EvictionOrderTotal ==
    [][pl = NoPlan /\ pl' # NoPlan
          => \A i, j \in 1..Len(pl'.cmds) :
                /\ i < j
                /\ pl'.cmds[i].node = pl'.cmds[j].node
                /\ pl'.cmds[i].requestID[1] = "pressure"
                /\ pl'.cmds[j].requestID[1] = "pressure"
                /\ pl'.cmds[i].model # pl'.cmds[j].model
                => EvictBefore(pl'.cmds[i].node, pl'.cmds[i].model, pl'.cmds[j].model)]_vars

C14_RegistryUnderReconnect ==
    [][\A n \in Nodes :
          /\ \A s \in Streams :
                strm[s].node # n /\ strm'[s].node = n => registry'[n] = s
          /\ \A s1, s2 \in Streams :
                (s1 # s2 /\ registry[n] = s2 /\ strm[s1].node = n
                   /\ strm'[s1] = NewStream /\ strm'[s2] = strm[s2])
                    => registry'[n] = s2
          /\ (registry[n] # "" /\ registry'[n] = "")
                => /\ strm[registry[n]].node = n
                   /\ strm'[registry[n]] = NewStream]_vars

\* Both streams have sent HELLO for the same node id and the registry names
\* the second of them, the first being still open.
C14_Witness ==
    \E n \in Nodes :
        /\ strm["s1"].node = n /\ strm["s2"].node = n
        /\ registry[n] = "s2"

\* The frames of plan p for worker n, model m and the given reason.
Frames(p, n, m, reason) ==
    {i \in 1..Len(p.cmds) : p.cmds[i].node = n /\ p.cmds[i].model = m
                             /\ p.cmds[i].requestID[1] = reason}

\* C15: send_unload fails as unavailable and sends nothing for a worker without
\* a session; otherwise one UNLOAD-MODEL frame with the caller's request id and
\* model id goes out on the registered session; cluster state, gates and
\* registry stay as they are, and the planner goes on with the other workers.
C15_SendUnload ==
    [][pl = NoPlan /\ pl' # NoPlan =>
         /\ cluster' = cluster /\ gates' = gates /\ registry' = registry
         /\ \A n \in Nodes, m \in Models, reason \in {"ttl", "pressure"} :
               /\ SendUnloadErr(registry, n) = "Unavailable"
                     <=> SendUnload(registry, n, <<reason, now>>, m) = <<>>
               /\ SendUnloadErr(registry, n) = "Unavailable"
                     => Frames(pl', n, m, reason) = {}
               /\ Cardinality(Frames(pl', n, m, reason)) <= 1
               /\ \A i \in Frames(pl', n, m, reason) :
                     /\ registry[n] # "" /\ pl'.cmds[i].stream = registry[n]
                     /\ pl'.cmds[i].requestID = <<reason, now>>
               /\ (TTLExpired(n, m) /\ SendUnloadErr(registry, n) = "")
                     => Frames(pl', n, m, "ttl") # {}]_vars

\* One tick met a worker without session, whose expired model got no frame,
\* and went on to send a frame to the other worker.
C15_Witness ==
    \E n1, n2 \in Nodes, m \in Models :
        /\ registry[n1] = "" /\ TTLExpired(n1, m) /\ Frames(pl, n1, m, "ttl") = {}
        /\ registry[n2] # "" /\ Frames(pl, n2, m, "ttl") # {}

\* The candidates pickBestByScore was given for request r: the READY subset
\* when there is one, else the workers with a data-plane URL.
Candidates(r) ==
    LET snap == [n \in SnapshotOnline(cluster, now, NodeOfflineTTL) |-> cloneNode(cluster[n])]
    IN IF req[r].how = "ready" THEN readyNodes(snap, req[r].model)
       ELSE eligibleNodes(snap)

Fits(n, p) == ~(p.RAMRequiredBytes > 0 /\ cluster[n].ramAvail < p.RAMRequiredBytes)

\* C16: with ram_required > 0 every worker that does not fit scores strictly
\* below every worker that fits, whatever the RAM, in-flight counts and
\* latency records, and a pick that had a fitting candidate returns a worker
\* that fits.
C16_OOMGuard ==
    \A r \in Requests :
        LET p == GetPolicy(policies, req[r].model)
        IN (req[r].pc = "forward" /\ req[r].how \in {"ready", "loader"}
              /\ p.RAMRequiredBytes > 0)
            => /\ \A a, b \in Candidates(r) :
                     ~Fits(a, p) /\ Fits(b, p)
                        => scoreNode(cluster[a], lat[a], p) < scoreNode(cluster[b], lat[b], p)
               /\ (\E b \in Candidates(r) : Fits(b, p)) => Fits(req[r].node, p)

\* Worker a comes before worker b: higher score, then fewer in-flight requests,
\* then the lower node id.
Better(a, b, p) ==
    LET sa == scoreNode(cluster[a], lat[a], p)
        sb == scoreNode(cluster[b], lat[b], p)
    IN \/ sa > sb
       \/ sa = sb /\ cluster[a].inflight < cluster[b].inflight
       \/ sa = sb /\ cluster[a].inflight = cluster[b].inflight /\ NodeRank[a] < NodeRank[b]

\* C17: whatever the order in which the candidates are enumerated, a pick
\* returns the one candidate that comes before all others by (score
\* descending, in-flight ascending, node id ascending), and the picks for one
\* model on an unchanged cluster state return the same worker.
C17_PickDeterministic ==
    /\ \A r \in Requests :
          (req[r].pc = "forward" /\ req[r].how \in {"ready", "loader"})
            => /\ req[r].node \in Candidates(r)
               /\ \A o \in Candidates(r) \ {req[r].node} :
                     Better(req[r].node, o, GetPolicy(policies, req[r].model))
    /\ \A r1, r2 \in Requests :
          (req[r1].pc \in {"forward", "wait"} /\ req[r2].pc \in {"forward", "wait"}
             /\ req[r1].model = req[r2].model)
            => req[r1].node = req[r2].node

\* Two picks were made on workers that tie on score and in-flight count, and
\* both returned the worker with the lower id.
C17_Witness ==
    /\ \A r \in Requests : req[r].pc \in {"forward", "wait"} /\ req[r].node = "n1"
    /\ LET p == GetPolicy(policies, "m1")
       IN /\ scoreNode(cluster["n1"], lat["n1"], p) = scoreNode(cluster["n2"], lat["n2"], p)
          /\ cluster["n1"].inflight = cluster["n2"].inflight
          /\ cluster["n1"].models = cluster["n2"].models

\* C18: the answer to GET /v1/models lists, each once and in the order of the
\* lowered ids, exactly the models in the residency maps of the workers whose
\* heartbeat is within the offline TTL; a model held only by workers whose
\* heartbeat has expired is not listed.
C18_ModelsOfFreshWorkers ==
    [][\A r \in Requests :
          (req[r].pc = "new" /\ req'[r].pc = "listed")
            => LET q == req'[r].data
                   fresh == {n \in Snapshot(cluster) : IsOnline(cluster[n], now, NodeOfflineTTL)}
               IN /\ {q[i] : i \in 1..Len(q)}
                       = {m \in Models : \E n \in fresh : cluster[n].models[m].state # "absent"}
                  /\ \A i, j \in 1..Len(q) : i < j => LowerRank(q[i]) < LowerRank(q[j])]_vars

\* C19: a POST whose body is not JSON or names no model is answered 400 before
\* placement (no gate is made or changed, no worker chosen), and any other body
\* goes to placement; 503 comes from a failed pick or from the wait's
\* deadline only, 502 only from the proxy's transport error; a request
\* answered 400 or 503 was not and is not forwarded.
C19_Outcomes ==
    [][\A r \in Requests :
          LET a == req[r]
              b == req'[r]
          IN /\ (a.pc = "new" /\ b.pc # "new")
                   => /\ (~b.body.json \/ b.body.model = "") <=> b.pc = "e400"
                      /\ b.pc = "e400" => gates' = gates /\ b.node = "" /\ b.model = ""
                      /\ b.pc # "e400" => b.model = b.body.model
             /\ (a.pc = "locked" /\ b.pc # "locked")
                   => (b.pc = "e503"
                         <=> /\ ~loaderInSnap(a.snap, gates[a.model].loadingNode)
                             /\ eligibleNodes(a.snap) = {})
             /\ (b.pc = "e503" /\ a.pc # "e503") => a.pc \in {"new", "locked", "select"}
             /\ (b.pc = "e502" /\ a.pc # "e502") => a.pc = "proxy"
             /\ a.pc \in {"e400", "e503"} => b = a /\ a.via = ""]_vars

\* One request with a JSON body that names no model was answered 400 with no
\* worker chosen, another was forwarded and answered 502.
C19_Witness ==
    \E r1, r2 \in Requests :
        /\ req[r1].pc = "e400" /\ req[r1].body.json /\ req[r1].node = ""
        /\ req[r2].pc = "e502" /\ req[r2].via # ""

\* C20: a request proxied to the worker placement chose gets its one latency
\* observation recorded under that worker's node id, OK when the upstream
\* answered and error with the 502: the proxy that serves it holds the chosen
\* node id, and the end of the request changes no other worker's record, also
\* when two workers announced the same data-plane URL.
C20_ObservedUnderChosen ==
    [][\A r \in Requests :
          (req[r].pc = "proxy" /\ req'[r].pc \in {"done", "e502"})
            => /\ req[r].via = req[r].node
               /\ \A n \in Nodes \ {req[r].node} : lat'[n] = lat[n]
               /\ lat'[req[r].node] > 0]_vars

\* C21: once a caller holds a snapshot, an UpsertNodeHello or UpdateNodeStatus
\* for any worker leaves every field and the residency map of every copy as
\* they were, and a write to a copy leaves what the store holds as it was.
C21_SnapshotIsolated ==
    [][/\ heap'.op \in {"hello", "status"} => snapView(heap') = snapView(heap)
       /\ heap'.op = "write" => cluster' = cluster]_vars

\* The caller holds a copy of a worker, the worker has reported a different
\* residency map since, and the caller has written to its copy.
C21_Witness ==
    \E n \in Nodes :
        /\ heap.op = "write" /\ heap.snap[n] # 0
        /\ cluster[n].models["m1"].state = "ready"
        /\ snapView(heap)[n].models["m1"].state = "error"
        /\ snapView(heap)[n].ramAvail # cluster[n].ramAvail

\* C22: a planner tick sends no unload command, of either pass, to a worker
\* whose snapshot reports requests in flight, whatever has expired there and
\* however short of RAM it is.
C22_NoUnloadWhileBusy ==
    [][pl = NoPlan /\ pl' # NoPlan =>
         \A i \in 1..Len(pl'.cmds) : cluster[pl'.cmds[i].node].inflight = 0]_vars

\* A tick sent commands while a busy worker with a session, an expired model
\* and a RAM shortfall got none.
C22_Witness ==
    /\ pl.cmds # <<>>
    /\ \E n \in Nodes, m \in Models :
          /\ cluster[n].inflight > 0 /\ registry[n] # ""
          /\ ttlDue(cluster[n], m, policies, now)
          /\ cluster[n].ramAvail < MinFreeBytes
          /\ \A i \in 1..Len(pl.cmds) : pl.cmds[i].node # n

\* The models of the pressure frames plan p holds for worker n, in the order
\* in which they were sent.
RECURSIVE pressureSent(_, _)
pressureSent(cmds, n) ==
    IF cmds = <<>> THEN <<>>
    ELSE (IF Head(cmds).node = n /\ Head(cmds).requestID[1] = "pressure"
          THEN <<Head(cmds).model>> ELSE <<>>) \o pressureSent(Tail(cmds), n)

\* The estimate for model m: the policy's ram_required, 0 without a policy.
Estimate(m) == IF policies[m].ok THEN policies[m].RAMRequiredBytes ELSE 0

RECURSIVE SumEstimates(_, _)
SumEstimates(sq, k) == IF k = 0 THEN 0 ELSE Estimate(sq[k]) + SumEstimates(sq, k - 1)

SpecifiedScore(n, m) ==
    cluster[n].ramAvail - cluster[n].inflight * inflightPenaltyBytes
      - lat[n] * latencyPenaltyBytesPerMs
      + (IF cluster[n].models[m].state # "absent" THEN affinityBonus ELSE 0)

\* C24: the score a pick for model M computes for a candidate that fits is
\* RAM_available - inflight * 512 MiB - EWMA_ms * 8 MiB + affinity, with
\* affinity 1 GiB exactly when M is in the worker's residency map, whether or
\* not M has a policy.
C24_ScoreFormula ==
    \A r \in Requests :
        (req[r].pc = "forward" /\ req[r].how \in {"ready", "loader"})
          => \A n \in Candidates(r) :
                LET p == GetPolicy(policies, req[r].model)
                IN Fits(n, p) => scoreNode(cluster[n], lat[n], p) = SpecifiedScore(n, req[r].model)

\* C25: every unload command a tick sends appends exactly one event to the
\* activity log, of type ttl_unload for the reason ttl and pressure_unload for
\* the reason pressure; a failed send appends none.
C25_OneEventPerUnload ==
    [][pl = NoPlan /\ pl' # NoPlan =>
         /\ Len(pl'.events) = Len(pl'.cmds)
         /\ \A i \in 1..Len(pl'.events) :
               i <= Len(pl'.cmds) =>
                  /\ pl'.events[i].NodeID = pl'.cmds[i].node
                  /\ pl'.events[i].Model = pl'.cmds[i].model
                  /\ pl'.events[i].Type = (IF pl'.cmds[i].requestID[1] = "ttl"
                                          THEN "ttl_unload" ELSE "pressure_unload")]_vars

\* C26: a notification for a residency that is not READY changes nothing: a
\* stream changes the gate of a model only for a READY residency of its
\* STATUS.  A READY notification for model M clears M's loading_node whichever
\* worker reported it, wakes every waiter blocked on M's gate and leaves the
\* gates of the other models as they are.
C26_NotifyFrame ==
    [][\A s \in Streams :
          strm'[s] # strm[s]
            => /\ \A m \in Models :
                     gates'[m] # gates[m]
                        => statusModels(strm[s].msg)[m].state = "ready"
               /\ (strm[s].pc = "notifying" /\ strm'[s].pc = "notify")
                     => LET m == strm[s].cur
                        IN /\ gates'[m].loadingNode = ""
                           /\ \A r \in selecting(m) : req'[r].chClosed
                           /\ \A o \in Models \ {m} : gates'[o] = gates[o]
                           /\ \A r \in Requests \ selecting(m) : req'[r] = req[r]]_vars

\* A worker other than the loading owner reported M READY: the loading owner
\* is cleared and two waiters blocked on M's gate were woken, while the other
\* model has no gate.
C26_Witness ==
    /\ gates["m1"].loadingNode = "" /\ ~gates["m2"].exists
    /\ \A r \in Requests : /\ req[r].pc = "select" /\ req[r].chClosed
                           /\ req[r].model = "m1" /\ req[r].node = "n1"
    /\ cluster["n1"].models["m1"].state # "ready"

\* C27: a waiter that read the gate's channel and sits in its select finds
\* that channel closed after any READY notification for its model that comes
\* after the read, and it stays closed until the waiter leaves the select; a
\* waiter that reads the channel after a notification gets an open one and
\* waits for the next notification.
C27_NoMissedWake ==
    [][\A r \in Requests :
          /\ (req[r].pc = "select"
                /\ \E s \in Streams : /\ strm[s].pc = "notifying" /\ strm'[s].pc = "notify"
                                      /\ strm[s].cur = req[r].model)
                => req'[r].pc = "select" /\ req'[r].chClosed
          /\ (req[r].pc = "select" /\ req[r].chClosed /\ req'[r].pc = "select")
                => req'[r].chClosed
          /\ (req[r].pc = "loop" /\ req'[r].pc = "select") => ~req'[r].chClosed]_vars

\* After a notification for m1 one waiter holds the closed channel and the
\* other, which read the channel later, holds the new open one.
C27_Witness ==
    /\ gates["m1"].loadingNode = ""
    /\ req[1].pc = "select" /\ req[1].chClosed /\ req[1].model = "m1"
    /\ req[2].pc = "select" /\ ~req[2].chClosed /\ req[2].model = "m1"

\* C28: while the loading owner of M is online with a data-plane URL and M is
\* READY nowhere, a pick for M by any caller that comes to the gate returns
\* that worker in WAIT mode and leaves loading_node as it is.
C28_WaitOnLoadingOwner ==
    [][\A r \in Requests :
          LET m == req[r].model
              ln == gates[m].loadingNode
          IN (/\ req[r].pc = "locked" /\ req'[r].pc # "locked"
              /\ ln # "" /\ cluster[ln].known /\ cluster[ln].url # ""
              /\ IsOnline(cluster[ln], now, NodeOfflineTTL)
              /\ \A n \in Nodes : cluster[n].models[m].state # "ready")
               => /\ req'[r].pc = "wait" /\ req'[r].node = ln
                  /\ gates'[m].loadingNode = ln]_vars

\* The record UpdateNodeStatus leaves for a worker whose data-plane URL is url,
\* from the STATUS msg processed at time t.
RecordOf(msg, url, t) ==
    [known |-> TRUE, url |-> url, hb |-> t, ramTotal |-> msg.ramTotal,
     ramAvail |-> msg.ramAvail, inflight |-> msg.inflight,
     models |-> [m \in Models |->
                   IF msg.models[m].listed
                   THEN [state |-> mapModelState(msg.models[m].state),
                         loadedSince |-> unixMsToTime(msg.models[m].loadedSinceUnixMs)]
                   ELSE NoRes]]

\* C29: when the router has processed a STATUS of worker W, W's record holds
\* exactly that STATUS's RAM totals, in-flight count and residencies (a model
\* the STATUS does not list is absent) and the heartbeat of that moment,
\* whatever the record held before (so of two STATUS in a row the later one
\* decides), and no other worker's record changes.  A STATUS with a READY
\* residency is the one the stream holds while it notifies; a step of a
\* receiving stream that changes more than a heartbeat (a repeated HELLO
\* changes no more) is a STATUS without one.
C29_StatusReplacesRecord ==
    [][/\ \A s \in Streams :
             (strm[s].pc = "notify" /\ strm'[s].pc = "recv")
                => cluster' = [cluster EXCEPT
                                 ![strm[s].node] =
                                     RecordOf(strm[s].msg, cluster[strm[s].node].url, now)]
       /\ (/\ strm' = strm /\ registry' = registry /\ cluster' # cluster
           /\ \A n \in Nodes : cluster' # [cluster EXCEPT ![n].hb = now])
             => \E s \in Streams, msg \in {StatusIdle, StatusReady, StatusMixed} :
                   /\ strm[s].pc = "recv" /\ strm[s].node # ""
                   /\ \A m \in Models :
                         msg.models[m].listed => msg.models[m].state # WireReady
                   /\ cluster' = [cluster EXCEPT
                                    ![strm[s].node] =
                                        RecordOf(msg, cluster[strm[s].node].url, now)]]_vars

\* Worker n1 reported m1 READY at time 1 and later, at time 2, a STATUS with
\* m1 LOADING and m2 READY; n2's record is the one of its idle STATUS.
C29_Witness ==
    /\ cluster["n1"] = RecordOf(StatusMixed, "http://w", 2)
    /\ cluster["n2"] = RecordOf(StatusIdle, "http://w", 1)
    /\ \A s \in Streams : strm[s].pc = "recv"

\* C30: a step in which a stream takes an ACK (ok or failed) or a message of
\* an unknown kind leaves the cluster state, every gate and the registry as
\* they are, and the stream stays where it was: receiving, under the same
\* node id, with no error returned.
C30_AckChangesNothing ==
    [][\A s \in Streams :
          (strm'[s].ignored # strm[s].ignored /\ strm'[s].ignored # "")
             => /\ cluster' = cluster /\ gates' = gates /\ registry' = registry
                /\ strm'[s].pc = "recv" /\ strm[s].pc = "recv"
                /\ strm'[s] = [strm[s] EXCEPT !.ignored = strm'[s].ignored]]_vars

\* Stream s1 of worker n1 took a failed ACK and is still the registered
\* stream of n1, whose m1 is READY and whose gate exists; stream s2 took a
\* message of an unknown kind before any HELLO and is open.
C30_Witness ==
    /\ strm["s1"].ignored = "ack failed" /\ strm["s1"].node = "n1"
    /\ strm["s1"].pc = "recv" /\ registry["n1"] = "s1"
    /\ cluster["n1"].models["m1"].state = "ready" /\ gates["m1"].exists
    /\ strm["s2"].ignored = "other" /\ strm["s2"].node = "" /\ strm["s2"].ret = ""

\* C31 (as stated): an entry of the reverse-proxy cache, once stored, is never
\* replaced, and every caller of reverseProxy for a URL, callers racing on
\* the first use included, gets the instance the cache holds for that URL.
C31_OneProxyPerURL ==
    [][/\ \A u \in ProxyURLs : rpCache[u] # "" => rpCache'[u] = rpCache[u]
       /\ \A r \in Requests :
             (req[r].pc \in {"forward", "build"} /\ req'[r].pc = "proxy")
                => \A q \in Requests \ {r} :
                      (req'[q].pc \in {"proxy", "done", "e502"} /\ req'[q].url = req'[r].url)
                         => req'[q].via = req'[r].via]_vars

\* The header names the Connection value c lists.
ListedIn(c) ==
    IF c = "" THEN {}
    ELSE {CanonicalMIMEHeaderKey(TrimSpace(SplitComma(c)[i])) : i \in 1..Len(SplitComma(c))}

\* C32 (as stated): the header the Director leaves carries none of the nine
\* hop-by-hop headers and none of the headers the incoming Connection value
\* lists, and every other header as it came in.
C32_DirectorSanitizes ==
    hdr.pc = "out" =>
        \A x \in HeaderNames :
            hdr.out[x] = IF x \in hopByHopHeaders \cup ListedIn(hdr.in["Connection"])
                         THEN "" ELSE hdr.in[x]

\* C33 (as stated): a STATUS is applied to the cluster record of node n, and
\* leads to gate notifications, only if it arrives on the stream the registry
\* holds for n at that moment; a STATUS on a superseded stream does neither.
C33_OnlyRegisteredStatus ==
    [][\A s \in Streams :
          LET W == strm[s].node
          IN /\ (strm[s].pc = "recv" /\ strm'[s].pc = "notify") => registry[W] = s
             /\ (strm[s].pc = "notify" /\ strm'[s].pc = "notifying") => registry[W] = s
             /\ (strm[s].pc = "notify" /\ strm'[s].pc = "recv" /\ cluster' # cluster)
                   => registry[W] = s]_vars

\* Stream s has taken a HELLO for node n in this step: it is n's registered
\* stream now and was not, or did not speak for n, before.
HelloOn(s, n) ==
    /\ strm'[s].node = n /\ registry'[n] = s
    /\ strm[s].node # n \/ registry[n] # s

\* C34: a HELLO changes, of the record of its node, only the URL and the
\* heartbeat (the RAM values, the in-flight count and the residency map stay
\* as the last STATUS left them) and no other record; and no step of HELLO,
\* STATUS and stream close removes a node id from the known ones.
C34_HelloKeepsStatus ==
    [][/\ \A n \in Nodes : cluster[n].known => cluster'[n].known
       /\ \A s \in Streams, n \in Nodes :
             HelloOn(s, n)
                => /\ cluster'[n].hb = now
                   /\ cluster' = [cluster EXCEPT
                                    ![n] = [@ EXCEPT !.known = TRUE,
                                                     !.url = cluster'[n].url,
                                                     !.hb = now]]]_vars

\* Worker n1 reported m1 READY on a stream that has closed since, and came
\* back later on the other stream under another URL: its record still holds
\* what it reported.
C34_Witness ==
    /\ cluster["n1"].models["m1"].state = "ready" /\ cluster["n1"].ramAvail = 2048
    /\ cluster["n1"].hb = 2 /\ cluster["n1"].url = "http://w2"
    /\ registry["n1"] = "s2" /\ strm["s1"].node = "" /\ strm["s2"].node = "n1"

\* C35 (as stated): loading_node = W for M changes only in a READY
\* notification for M or in a pick whose snapshot does not hold W (so not in
\* a STATUS, at the end of a forwarded request, or in a waiter's timeout),
\* and while W is online every pick for M that comes to the gate is answered
\* with WAIT on W.
C35_OwnerStays ==
    [][\A m \in ReqModels :
          LET W == gates[m].loadingNode
          IN (gates[m].exists /\ W # "")
               => /\ gates'[m].loadingNode # W
                       => \/ \E s \in Streams :
                               strm[s].pc = "notifying" /\ strm[s].cur = m
                          \/ \E r \in Requests :
                               /\ req[r].pc = "locked" /\ req[r].model = m
                               /\ req'[r].pc # "locked"
                               /\ ~loaderInSnap(req[r].snap, W)
                  /\ \A r \in Requests :
                        (/\ req[r].pc = "locked" /\ req[r].model = m
                         /\ req'[r].pc # "locked"
                         /\ IsOnline(cluster[W], now, NodeOfflineTTL))
                           => req'[r].pc = "wait" /\ req'[r].node = W]_vars

\* C36 (as stated): a request in WAIT mode is released for forwarding to its
\* worker only at a readiness check at which that worker's heartbeat is within
\* the offline TTL.
C36_WaitChecksLiveness ==
    [][\A r \in Requests :
          (req[r].pc \in {"wait", "select"} /\ req'[r].pc = "forward")
             => IsOnline(cluster[req[r].node], now, NodeOfflineTTL)]_vars

\* C37 (as stated): the frames of one planner tick hold at most one
\* UNLOAD-MODEL for any worker and model, the TTL pass and the pressure pass
\* taken together.
C37_OneUnloadPerTick ==
    [][pl = NoPlan /\ pl' # NoPlan
          => \A n \in Nodes, m \in Models :
                Cardinality({i \in 1..Len(pl'.cmds) :
                                pl'.cmds[i].node = n /\ pl'.cmds[i].model = m}) <= 1]_vars

\* C38 (as stated): for a model that stays loaded from one STATUS of the agent
\* to the next, both carry the same loaded_since (which is what lets the age
\* the router computes, now - loaded_since, grow up to the model's TTL).
C38_LoadedSinceStable ==
    [][(agent.send.main = NoSend /\ agent'.send.main.kind = "status")
          => \A m \in Models :
                (agent.kept[m] /\ agent'.kept[m])
                   => agent'.prev[m].loadedSinceUnixMs
                         = agent.prev[m].loadedSinceUnixMs]_vars

\* C39 (as stated): at most one task of the agent is inside stream.Send at any
\* time, so the ACK of the receive task never overlaps a STATUS of the main loop.
C39_OneSenderAtATime ==
    ~(agent.send.main # NoSend /\ agent.send.recv # NoSend)

\* The tasks of S wait on each other's locks: each is kept from its lock, and
\* only by tasks of S.
LockCycle(S) == \A t \in S : WaitsFor(t) # {} /\ WaitsFor(t) \subseteq S

\* C40: no set of tasks waits on each other's locks in a cycle, and a task
\* that sends a frame or blocks in the gate wait holds neither the registry
\* lock nor the gate-map lock nor a gate's lock.
C40_NoLockCycle ==
    /\ \A S \in SUBSET Tasks : S # {} => ~LockCycle(S)
    /\ \A t \in Tasks :
          Cur(t).op \in {"Send", "Wait"}
             => /\ ~Holds(t, registryMu)
                /\ ~Holds(t, gatesMu)
                /\ \A m \in LockModels : ~Holds(t, gateMu(m))

\* A planner tick sends an UNLOAD-MODEL under the session's send mutex, a
\* ping task waits for that mutex, and a request is in the gate wait.
C40_Witness ==
    \E t \in Tasks, u \in Tasks, w \in Tasks :
       /\ Cur(t).op = "Send" /\ lk[t].prog \in tickLocks
       /\ WaitsFor(u) = {t}
       /\ Cur(w).op = "Wait"

====
